---- MODULE Spec2Model ----
(***************************************************************************)
(* InclusiveAI front end: the CameraScanner component (feature             *)
(* accumulation over a guided scan window), the RecommendationCard accept  *)
(* gate and the OnboardingPage step machine.                               *)
(*                                                                         *)
(* Number representation.  JavaScript numbers are modelled exactly on a    *)
(* fixed grid:                                                             *)
(*   - normalised landmark coordinates and confidences are integers in     *)
(*     thousandths (0.01 is 10, 0.2 is 200, 0.7 is 700);                   *)
(*   - handSignFreq is an integer count of 0.2-steps (10 is 50 steps).     *)
(* IEEE rounding of the repeated "+= 0.2" is not modelled.                 *)
(***************************************************************************)
EXTENDS Integers, Sequences, FiniteSets, TLC

VARIABLES
    features,       \* CameraScanner useState `features` (latest queued value)
    liveStats,      \* CameraScanner useState `liveStats`
    frames,         \* number of perception events delivered so far (model bound)
    lastEvent,      \* the perception event handled by the last step (history)
    prevHands       \* wrists of the previous hand frame (history)

VARIABLES
    isScanning,     \* CameraScanner useState `isScanning` (committed)
    scanProgress,   \* CameraScanner useState `scanProgress`, in percent
    currentStep,    \* CameraScanner useState `currentStep`: 0 is '', 1..4 the texts
    cameraFacing,   \* CameraScanner useState `cameraFacing`
    handsClosure,   \* isScanning captured by the onResults callbacks of
                    \* handsRef.current / poseRef.current
    cameras,        \* the Camera objects created so far; cameraRef.current is
                    \* the last one
    recognition,    \* state of the recogniser in recognitionRef.current:
                    \* "null", "listening", "flushing" (stopped, may still
                    \* return a result) or "ended"
    progressIntervalRef, \* interval id held by the ref; 0 is null
    intervals,      \* the live setInterval callbacks
    startTimeRef,   \* startTimeRef.current; -1 is null
    timers,         \* the pending setTimeout callbacks
    now,            \* the clock, in units of one guided step (5 s)
    pendingStarts,  \* startScan calls waiting in `await getUserMedia`
    scans,          \* number of scans started so far
    clicks,         \* number of startScan calls so far (model bound)
    completes       \* number of completeScan calls so far (model bound)

VARIABLES
    step,           \* OnboardingPage useState `step`
    showConsent,    \* OnboardingPage useState `showConsent`
    showManual,     \* OnboardingPage useState `showManual`
    recommendation, \* OnboardingPage useState `recommendation`
    error,          \* OnboardingPage useState `error`
    submits,        \* scanData of the submitAssistScan calls in flight
    consentStore    \* localStorage item 'inclusiveai_consent'

VARIABLES
    lastComplete,   \* what the last completeScan built and saw (history)
    windowEvents,   \* perception events handled since the last scan start (history)
    delivered       \* the onScanComplete calls so far: the scan whose
                    \* completeScan made the call, and its scanResults (history)

VARIABLES
    readSections,   \* ConsentModal useState `readSections`: the sections
                    \* whose flag is true
    manualCheckbox, \* ConsentModal useState `manualCheckbox`
    selectedMode,   \* ManualSelectionForm useState `selectedMode`
    preferences,    \* localStorage item 'inclusiveai_preferences'
    saves,          \* handlers waiting in `await saveUserPreferences`
    navTimers,      \* pending setTimeout(..., 2000) callbacks of the
                    \* completion handlers
    route,          \* the location the Router is at
    hasCompletedOnboarding, \* App useState `hasCompletedOnboarding`
    localKeys,      \* the other localStorage keys that are set, among
                    \* 'auth_token', 'user_id', 'guest_mode' and
                    \* 'inclusiveai_camera_data'
    hub             \* AssistiveHub: status "unmounted", "mounting" (rendered,
                    \* its effect not yet run) or "ready", and its useState
                    \* `preferences`

accVars == <<features, liveStats, frames, lastEvent, prevHands>>

scanVars == <<isScanning, scanProgress, currentStep, cameraFacing, handsClosure,
              cameras, recognition, progressIntervalRef, intervals,
              startTimeRef, timers, now, pendingStarts, scans, clicks,
              completes>>

pageVars == <<step, showConsent, showManual, recommendation, error, submits,
              consentStore>>

histVars == <<lastComplete, windowEvents, delivered>>

modalVars == <<readSections, manualCheckbox>>

formVars == <<selectedMode, preferences, saves, navTimers>>

appVars == <<route, hasCompletedOnboarding, hub, localKeys>>

extVars == <<modalVars, formVars, appVars>>

vars == <<accVars, scanVars, pageVars, histVars, extVars>>

----------------------------------------------------------------------------
(* Program constants *)

\* movementFreq += 0.2, in 0.2-steps
FreqStep == 1
\* Math.min(movementFreq, 10), in 0.2-steps
FreqCap == 50
\* history.slice(-10)
HistoryKeep == 10
\* prev.speechHistory.slice(-5)
SpeechKeep == 5
\* distance > 0.01, in thousandths
MoveThreshold == 10
\* hipAnkleDiff < 0.2, in thousandths
SeatedThreshold == 200
\* nose.x < 0.3, in thousandths
GazeLow == 300
\* nose.x > 0.7, in thousandths
GazeHigh == 700
\* scanDuration = 20000 ms, in guided steps of 5000 ms
ScanDuration == 4
\* isHighConfidence = confidence > 0.7, in thousandths
ConfidenceGate == 700

----------------------------------------------------------------------------
(* Bounds of the model *)

\* perception events delivered in one behaviour of SpecAcc
MaxFrames == 3
\* perception events delivered in one behaviour of Spec and SpecScan
MaxEvents == 2
\* startScan calls (Start Scan clicks and Flip Camera restarts) in one behaviour
MaxScans == 3
\* last value of the clock
MaxTime == 5
\* completeScan calls in one behaviour
MaxCompletes == 3
\* hand frames already handled in the warmed-up initial states of SpecAcc
WarmFrames == 60
\* how far below the cap the warmed-up initial states of SpecAcc start
WarmGap == 2

----------------------------------------------------------------------------
(* Helpers for JavaScript array operations *)

\* a mutant of SliceLast: one element more is kept
SliceLastOneMore(s, n) ==
    IF Len(s) <= n + 1 THEN s ELSE SubSeq(s, Len(s) - n, Len(s))

\* Array.prototype.slice(-n): the last n elements (all of them when shorter)
SliceLast(s, n) ==
    IF Len(s) <= n THEN s ELSE SubSeq(s, Len(s) - n + 1, Len(s))

Abs(n) == IF n < 0 THEN -n ELSE n

Min(a, b) == IF a < b THEN a ELSE b

----------------------------------------------------------------------------
(* Feature accumulator: the state updaters of the perception callbacks *)

\* useState initial value of `features`; JavaScript null is "null"
InitialFeatures ==
    [handSignFreq |-> 0,
     speechDetected |-> FALSE,
     gazePattern |-> "null",
     posture |-> "null",
     interactionBehavior |-> "null",
     handMovementHistory |-> <<>>,
     speechHistory |-> <<>>]

\* useState initial value of `liveStats`
InitialLiveStats ==
    [handsDetected |-> 0,
     gesturesCount |-> 0,
     speechDetected |-> FALSE,
     faceDetected |-> FALSE,
     poseDetected |-> FALSE]

\* Math.pow(lastPos.x - prevPos.x, 2) + Math.pow(lastPos.y - prevPos.y, 2)
DistSq(p, q) == (p.x - q.x) * (p.x - q.x) + (p.y - q.y) * (p.y - q.y)

\* a mutant of Moved: the 0.01 threshold is dropped, any displacement counts
MovedAnyDisplacement(recentHistory) ==
    /\ Len(recentHistory) >= 2
    /\ DistSq(recentHistory[Len(recentHistory)],
              recentHistory[Len(recentHistory) - 1]) > 0

\* recentHistory.length >= 2 and distance(last, previous) > 0.01;
\* sqrt(d) > t is compared as d > t*t
Moved(recentHistory) ==
    /\ Len(recentHistory) >= 2
    /\ DistSq(recentHistory[Len(recentHistory)],
              recentHistory[Len(recentHistory) - 1]) > MoveThreshold * MoveThreshold

\* a mutant of CapFreq: the cap is dropped
CapFreqNoCap(movementFreq) == movementFreq

\* Math.min(movementFreq, 10)
CapFreq(movementFreq) == Min(movementFreq, FreqCap)

\* the setFeatures updater of analyzeHandGestures; handPositions is the
\* sequence of wrist positions, one per detected hand (z and time are stored
\* by the code but never read, and are left out)
HandUpdater(prev, handPositions) ==
    LET history == prev.handMovementHistory \o handPositions
        recentHistory == SliceLast(history, HistoryKeep)
        movementFreq == IF Moved(recentHistory)
                        THEN prev.handSignFreq + FreqStep
                        ELSE prev.handSignFreq
    IN  [prev EXCEPT !.handSignFreq = CapFreq(movementFreq),
                     !.handMovementHistory = recentHistory]

\* analyzeHandGestures(landmarks) on the pair <<features, liveStats>>
AnalyzeHandGestures(fl, landmarks) ==
    IF Len(landmarks) > 0
    THEN <<HandUpdater(fl[1], landmarks),
           [fl[2] EXCEPT !.gesturesCount = @ + 1]>>
    ELSE fl

\* body of hands.onResults once its guard has passed; results is
\* [present |-> multiHandLandmarks is defined, hands |-> wrist positions]
HandsOnResultsBody(fl, results) ==
    IF results.present
    THEN LET a == AnalyzeHandGestures(fl, results.hands)
         IN  <<a[1], [a[2] EXCEPT !.handsDetected = Len(results.hands)]>>
    ELSE fl

\* a landmark that the tracker did not return (landmarks[i] is undefined)
Absent == -1

\* a mutant of PostureOf: the comparison is <= instead of <
PostureOfInclusive(leftHip, rightHip, leftAnkle, rightAnkle) ==
    IF Abs((leftHip + rightHip) - (leftAnkle + rightAnkle)) <= 2 * SeatedThreshold
    THEN "seated" ELSE "standing"

\* hipY = (leftHip.y + rightHip.y) / 2, ankleY likewise,
\* |hipY - ankleY| < 0.2 -> seated; both sides are doubled to stay in integers
PostureOf(leftHip, rightHip, leftAnkle, rightAnkle) ==
    IF Abs((leftHip + rightHip) - (leftAnkle + rightAnkle)) < 2 * SeatedThreshold
    THEN "seated" ELSE "standing"

\* a mutant of AnalyzePose: a frame without the four landmarks resets posture
AnalyzePoseResetting(fl, lm) ==
    IF /\ lm.leftHip # Absent /\ lm.rightHip # Absent
       /\ lm.leftAnkle # Absent /\ lm.rightAnkle # Absent
    THEN <<[fl[1] EXCEPT !.posture =
                PostureOf(lm.leftHip, lm.rightHip, lm.leftAnkle, lm.rightAnkle)],
           fl[2]>>
    ELSE <<[fl[1] EXCEPT !.posture = "standing"], fl[2]>>

\* analyzePose(landmarks); lm carries the y of landmarks 23, 24, 27, 28
AnalyzePose(fl, lm) ==
    IF /\ lm.leftHip # Absent /\ lm.rightHip # Absent
       /\ lm.leftAnkle # Absent /\ lm.rightAnkle # Absent
    THEN <<[fl[1] EXCEPT !.posture =
                PostureOf(lm.leftHip, lm.rightHip, lm.leftAnkle, lm.rightAnkle)],
           fl[2]>>
    ELSE fl

\* a mutant of GazeOf: the comparisons are <= and >= instead of < and >
GazeOfInclusive(noseX) ==
    IF noseX <= GazeLow \/ noseX >= GazeHigh THEN "inconsistent" ELSE "normal"

\* nose.x < 0.3 || nose.x > 0.7 -> inconsistent
GazeOf(noseX) ==
    IF noseX < GazeLow \/ noseX > GazeHigh THEN "inconsistent" ELSE "normal"

\* body of pose.onResults once its guard has passed; results is
\* [present |-> poseLandmarks is defined, nose |-> x of landmarks[0] or
\*  Absent, leftHip, rightHip, leftAnkle, rightAnkle |-> y or Absent]
PoseOnResultsBody(fl, results) ==
    IF results.present
    THEN LET a == AnalyzePose(fl, results)
         IN  IF results.nose # Absent
             THEN <<[a[1] EXCEPT !.gazePattern = GazeOf(results.nose)],
                    [a[2] EXCEPT !.faceDetected = TRUE,
                                 !.poseDetected = TRUE]>>
             ELSE a
    ELSE fl

\* a mutant of SpeechUpdater: an interim result counts as speech as well
SpeechUpdaterInterim(prev, result) ==
    [prev EXCEPT !.speechDetected = TRUE,
                 !.speechHistory =
                     SliceLast(prev.speechHistory, SpeechKeep)
                         \o <<result.transcript>>]

\* one iteration of the loop of recognition.onresult on `features`
SpeechUpdater(prev, result) ==
    IF result.isFinal
    THEN [prev EXCEPT !.speechDetected = TRUE,
                      !.speechHistory =
                          SliceLast(prev.speechHistory, SpeechKeep)
                              \o <<result.transcript>>]
    ELSE prev

RECURSIVE SpeechLoop(_, _)
\* for (i = event.resultIndex; i < event.results.length; i++) ...
SpeechLoop(prev, results) ==
    IF results = <<>> THEN prev
    ELSE SpeechLoop(SpeechUpdater(prev, Head(results)), Tail(results))

\* recognition.onresult(event); results is the sequence
\* event.results[event.resultIndex ..], each [isFinal, transcript]
OnResult(fl, results) ==
    LET speechDetected == \E i \in 1..Len(results) : results[i].isFinal
    IN  <<SpeechLoop(fl[1], results),
          IF speechDetected
          THEN [fl[2] EXCEPT !.speechDetected = TRUE]
          ELSE fl[2]>>

----------------------------------------------------------------------------
(* Perception events the trackers and the recogniser can deliver *)

\* hands.setOptions({ maxNumHands: 2 })
MaxNumHands == 2

\* wrist positions: WristA-WristB are exactly 0.01 apart, WristA-WristC
\* 0.015, WristB-WristC 0.005
WristA == [x |-> 500, y |-> 500]
WristB == [x |-> 510, y |-> 500]
WristC == [x |-> 515, y |-> 500]
Wrists == {WristA, WristB, WristC}

HandSeqs == UNION {[1..n -> Wrists] : n \in 0..MaxNumHands}

HandResults ==
    {[present |-> FALSE, hands |-> <<>>]}
        \cup {[present |-> TRUE, hands |-> h] : h \in HandSeqs}

NoseXs == {Absent, 299, 300, 700, 701}

\* hip / ankle heights: differences of 0.199, 0.2 and 0.4, and frames in
\* which one of the four landmarks is missing
LegSets ==
    {<<500, 500, 699, 699>>, <<500, 500, 700, 700>>, <<500, 500, 900, 900>>,
     <<Absent, 500, 699, 699>>, <<500, 500, 699, Absent>>,
     <<Absent, Absent, Absent, Absent>>}

PoseResults ==
    {[present |-> FALSE, nose |-> Absent, leftHip |-> Absent,
      rightHip |-> Absent, leftAnkle |-> Absent, rightAnkle |-> Absent]}
        \cup {[present |-> TRUE, nose |-> n, leftHip |-> l[1],
               rightHip |-> l[2], leftAnkle |-> l[3], rightAnkle |-> l[4]] :
                  n \in NoseXs, l \in LegSets}

SpeechResultSet == [isFinal : BOOLEAN, transcript : {"hello", "world"}]

\* event.results from event.resultIndex on: one or two results
SpeechEvents == UNION {[1..n -> SpeechResultSet] : n \in 1..2}

NoEvent == [kind |-> "none", arg |-> <<>>]

\* the events Spec and SpecScan deliver to the scanner: frames of one hand
\* at WristA or at WristC, a pose frame of a seated user looking aside, a
\* final speech result (SpecAcc delivers all of HandResults, PoseResults and
\* SpeechEvents)
ScanHandResults ==
    {[present |-> TRUE, hands |-> <<w>>] : w \in {WristA, WristC}}

ScanPoseResults ==
    {[present |-> TRUE, nose |-> 299, leftHip |-> 500, rightHip |-> 500,
      leftAnkle |-> 699, rightAnkle |-> 699]}

ScanSpeechEvents == {<<[isFinal |-> TRUE, transcript |-> "hello"]>>}

----------------------------------------------------------------------------
(* CameraScanner: refs, closures, timers *)

\* videoRef.current / canvasRef.current are set exactly while the scanner
\* is mounted, and OnboardingPage mounts it exactly in step 'scan'
Mounted == step = "scan"

\* a mutant of Finalize: the fallbacks for null gaze / posture are swapped out
\* for the raw values
FinalizeNoDefaults(f, ls) ==
    [handSignFreq |-> Min(f.handSignFreq, FreqCap),
     speechDetected |-> f.speechDetected \/ ls.speechDetected,
     gazePattern |-> f.gazePattern,
     posture |-> f.posture,
     interactionBehavior |-> f.interactionBehavior]

\* scanResults.features as completeScan builds it from the `features` and
\* `liveStats` of its render (timestamp left out; duration is scanDuration)
Finalize(f, ls) ==
    [handSignFreq |-> Min(f.handSignFreq, FreqCap),
     speechDetected |-> f.speechDetected \/ ls.speechDetected,
     gazePattern |-> IF f.gazePattern = "null" THEN "normal" ELSE f.gazePattern,
     posture |-> IF f.posture = "null" THEN "standing" ELSE f.posture,
     interactionBehavior |-> f.interactionBehavior]

\* what one render of CameraScanner gives the functions it defines:
\* its isScanning and, through completeScan, its features and liveStats
Closure(scanning, f, ls) ==
    [scan |-> 0, isScanning |-> scanning, snap |-> Finalize(f, ls)]

NoClosure == [scan |-> 0, isScanning |-> FALSE, snap |-> Finalize(InitialFeatures, InitialLiveStats)]

\* Camera.stop() on cameraRef.current: a camera whose stream is running is
\* stopped; one that has not acquired its stream yet has nothing to stop
StopCamera(cs) ==
    IF cs = <<>> THEN cs
    ELSE [cs EXCEPT ![Len(cs)].state = IF @ = "running" THEN "stopped" ELSE @]

\* recognition.stop() on recognitionRef.current: the recogniser stops
\* listening and may still return a result for the audio it captured
StopRecognition(r) == IF r = "listening" THEN "flushing" ELSE r

\* clearInterval(id)
ClearInterval(is, id) == {i \in is : i.id # id}

\* Math.min((elapsed / scanDuration) * 100, 100)
Progress(elapsed) == Min((elapsed * 100) \div ScanDuration, 100)

RemoveAt(s, i) == SubSeq(s, 1, i - 1) \o SubSeq(s, i + 1, Len(s))

\* a pending setTimeout callback: idx is the guided step of a "step" timer
\* and tells apart the "deliver" and "restart" timers of different calls
Timer(kind, idx, due, cl) == [kind |-> kind, idx |-> idx, due |-> due, cl |-> cl]

ScanInit ==
    /\ isScanning = FALSE
    /\ scanProgress = 0
    /\ currentStep = 0
    /\ cameraFacing = "user"
    /\ handsClosure = FALSE
    /\ cameras = <<>>
    /\ recognition = "null"
    /\ progressIntervalRef = 0
    /\ intervals = {}
    /\ startTimeRef = -1
    /\ timers = {}
    /\ now = 0
    /\ pendingStarts = <<>>
    /\ scans = 0
    /\ clicks = 0
    /\ completes = 0

\* useState(null) of `recommendation`
NoRecommendation == [mode |-> "none", confidence |-> 0]

PageInit ==
    /\ step = "welcome"
    /\ showConsent = FALSE
    /\ showManual = FALSE
    /\ recommendation = NoRecommendation
    /\ error = "null"
    /\ submits = <<>>
    /\ consentStore = "null"

NoComplete ==
    [scan |-> 0, latest |-> 0, mounted |-> FALSE, events |-> 0,
     results |-> NoClosure.snap, live |-> NoClosure.snap]

HistInit ==
    /\ lastComplete = NoComplete
    /\ windowEvents = 0
    /\ delivered = <<>>

\* getStoredPreferences() when nothing is stored; confidence -1 stands for a
\* record without that field
NoPreferences ==
    [assistMode |-> "null", source |-> "null", confidence |-> -1,
     completedOnboarding |-> FALSE]

\* the key deleteAllUserData and clearCameraData remove besides the two
\* items of storage.js
CameraDataKey == "inclusiveai_camera_data"

\* the keys LoginPage writes: handleSubmit 'auth_token' and 'user_id' (each
\* when the response carries it), handleGuestMode 'guest_mode'
LoginKeys == {"auth_token", "user_id", "guest_mode"}

\* local storage of a user who signed in with a password
PasswordLoginKeys == {"auth_token", "user_id"}

\* AssistiveHub while route '/hub' is not rendered
HubUnmounted == [status |-> "unmounted", preferences |-> NoPreferences]

\* the consent modal and the manual form as they mount, empty local
\* storage, and the App of a signed-in user who has not completed onboarding
ExtInit ==
    /\ readSections = {}
    /\ manualCheckbox = FALSE
    /\ selectedMode = "null"
    /\ preferences = NoPreferences
    /\ saves = 0
    /\ navTimers = 0
    /\ route = "/"
    /\ hasCompletedOnboarding = FALSE
    /\ hub = HubUnmounted

----------------------------------------------------------------------------
(* CameraScanner: the handlers *)

\* a mutant of StopScanKeepsTimers: Stop Scan also drops the stopped
\* scan's guided-step timers
StopScanClearsTimers(ts) == {t \in ts : t.kind # "step"}

\* the setTimeout callbacks stopScan leaves pending: all of them (it only
\* calls clearInterval)
StopScanKeepsTimers(ts) == ts

\* stopScan(), with the re-render it causes (the [isScanning] effect's
\* cleanup and re-run); ts is the timer list to continue from
StopScan(ts) ==
    /\ isScanning' = FALSE
    /\ cameras' = StopCamera(cameras)
    /\ recognition' = StopRecognition(recognition)
    /\ intervals' = IF progressIntervalRef # 0
                    THEN ClearInterval(intervals, progressIntervalRef)
                    ELSE intervals
    /\ UNCHANGED <<progressIntervalRef, completes>>
    /\ handsClosure' = FALSE
    /\ timers' = StopScanKeepsTimers(ts)

\* completeScan() of the render described by cl, with the re-render it
\* causes; ts is the timer list to continue from, ref / is the interval ref
\* and the live intervals it starts from
CompleteScan(cl, ts, ref, is) ==
    /\ completes < MaxCompletes
    /\ completes' = completes + 1
    /\ progressIntervalRef' = 0
    /\ intervals' = IF ref # 0 THEN ClearInterval(is, ref) ELSE is
    /\ isScanning' = FALSE
    /\ cameras' = StopCamera(cameras)
    /\ recognition' = StopRecognition(recognition)
    /\ handsClosure' = FALSE
    /\ timers' = ts \cup {Timer("deliver", completes + 1, now, cl)}
    /\ lastComplete' = [scan |-> cl.scan, latest |-> scans,
                        mounted |-> Mounted,
                        events |-> windowEvents, results |-> cl.snap,
                        live |-> Finalize(features, liveStats)]

\* onClick of "Start Scan": startScan() of the current render runs up to
\* `await getUserMedia`
StartScanClick ==
    /\ Mounted
    /\ ~isScanning
    /\ clicks < MaxScans
    /\ clicks' = clicks + 1
    /\ pendingStarts' = Append(pendingStarts, Closure(isScanning, features, liveStats))
    /\ lastEvent' = NoEvent
    /\ UNCHANGED <<features, liveStats, frames, prevHands>>
    /\ UNCHANGED <<isScanning, scanProgress, currentStep, cameraFacing,
                   handsClosure, cameras, recognition, progressIntervalRef,
                   intervals, startTimeRef, timers, now, scans, completes>>
    /\ UNCHANGED <<pageVars, histVars>>
    /\ UNCHANGED extVars

\* getUserMedia resolves and startScan() runs to its end: camera, speech
\* recognition, setIsScanning(true), startGuidedSteps(); then the re-render:
\* when isScanning changed, the effect's cleanup stops cameraRef.current and
\* recognitionRef.current and the effect installs new onResults callbacks.
\* acquired: whether Camera.start() had its stream before that cleanup ran.
StartScanResolve ==
    \E i \in 1..Len(pendingStarts), acquired \in BOOLEAN :
        LET cl == [pendingStarts[i] EXCEPT !.scan = scans + 1]
            changed == ~isScanning
            camera == [fwd |-> cl.isScanning,
                       state |-> IF ~changed THEN "starting"
                                 ELSE IF acquired THEN "stopped"
                                 ELSE "starting"]
        IN  /\ pendingStarts' = RemoveAt(pendingStarts, i)
            /\ IF Mounted
               THEN /\ cameras' = Append(cameras, camera)
                    /\ recognition' = IF changed THEN "flushing" ELSE "listening"
                    /\ isScanning' = TRUE
                    /\ handsClosure' = TRUE
                    /\ startTimeRef' = now
                    /\ scans' = scans + 1
                    /\ timers' = timers \cup {Timer("step", 0, now, cl)}
                    /\ progressIntervalRef' = scans + 1
                    /\ intervals' = intervals \cup {[id |-> scans + 1, cl |-> cl]}
                    /\ windowEvents' = 0
                    /\ lastEvent' = NoEvent
               ELSE /\ lastEvent' = NoEvent
                    /\ UNCHANGED <<cameras, recognition, isScanning,
                                   handsClosure, startTimeRef, scans, timers,
                                   progressIntervalRef, intervals, windowEvents>>
            /\ UNCHANGED <<features, liveStats, frames, prevHands>>
            /\ UNCHANGED <<scanProgress, currentStep, cameraFacing, now, clicks,
                           completes>>
            /\ UNCHANGED <<pageVars, lastComplete, delivered>>
            /\ UNCHANGED extVars

\* Camera.start() obtains its stream: frames begin
CameraAcquire ==
    \E k \in 1..Len(cameras) :
        /\ Mounted
        /\ cameras[k].state = "starting"
        /\ cameras' = [cameras EXCEPT ![k].state = "running"]
        /\ lastEvent' = NoEvent
        /\ UNCHANGED <<features, liveStats, frames, prevHands>>
        /\ UNCHANGED <<isScanning, scanProgress, currentStep, cameraFacing,
                       handsClosure, recognition, progressIntervalRef,
                       intervals, startTimeRef, timers, now, pendingStarts,
                       scans, clicks, completes>>
        /\ UNCHANGED <<pageVars, histVars>>
        /\ UNCHANGED extVars

\* a frame reaches hands.onResults: the camera is running, its onFrame
\* forwards (isScanning of the render that created it), and the guard of
\* hands.onResults passes
FrameIngested ==
    /\ Mounted
    /\ handsClosure
    /\ \E k \in 1..Len(cameras) : cameras[k].state = "running" /\ cameras[k].fwd
    /\ frames < MaxEvents

\* hands.onResults(results) for a forwarded frame
HandsOnResults ==
    \E r \in ScanHandResults :
        /\ FrameIngested
        /\ LET fl == HandsOnResultsBody(<<features, liveStats>>, r)
           IN  /\ features' = fl[1]
               /\ liveStats' = fl[2]
        /\ frames' = frames + 1
        /\ windowEvents' = windowEvents + 1
        /\ lastEvent' = [kind |-> "hand", arg |-> r]
        /\ prevHands' = IF r.present THEN r.hands ELSE prevHands
        /\ UNCHANGED <<scanVars, pageVars, lastComplete, delivered>>
        /\ UNCHANGED extVars

\* pose.onResults(results) for a forwarded frame
PoseOnResults ==
    \E r \in ScanPoseResults :
        /\ FrameIngested
        /\ LET fl == PoseOnResultsBody(<<features, liveStats>>, r)
           IN  /\ features' = fl[1]
               /\ liveStats' = fl[2]
        /\ frames' = frames + 1
        /\ windowEvents' = windowEvents + 1
        /\ lastEvent' = [kind |-> "pose", arg |-> r]
        /\ UNCHANGED <<prevHands, scanVars, pageVars, lastComplete, delivered>>
        /\ UNCHANGED extVars

\* recognition.onresult(event): the recogniser listens, or was stopped and
\* returns what it captured
RecognitionOnResult ==
    \E e \in ScanSpeechEvents :
        /\ Mounted
        /\ recognition \in {"listening", "flushing"}
        /\ frames < MaxEvents
        /\ LET fl == OnResult(<<features, liveStats>>, e)
           IN  /\ features' = fl[1]
               /\ liveStats' = fl[2]
        /\ frames' = frames + 1
        /\ windowEvents' = windowEvents + 1
        /\ lastEvent' = [kind |-> "speech", arg |-> e]
        /\ UNCHANGED <<prevHands, scanVars, pageVars, lastComplete, delivered>>
        /\ UNCHANGED extVars

\* setTimeout callbacks with equal delays run in the order they were
\* scheduled: of two guided-step timers the one that is due earlier runs
\* first, and of two that are due in the same unit the earlier scan's
StepTimerBefore(a, b) ==
    a.due < b.due \/ (a.due = b.due /\ a.cl.scan < b.cl.scan)

\* a guided-step timer fires: steps 0..3 show their text (setCurrentStep);
\* idx 4 is the inner timer of the last step, the only one for which
\* step.time + step.duration >= scanDuration, and it calls completeScan()
GuidedStepTimer ==
    \E t \in timers :
        LET rest == timers \ {t}
        IN  /\ t.kind = "step"
            /\ t.due <= now
            /\ \A u \in rest : u.kind = "step" => ~StepTimerBefore(u, t)
            /\ lastEvent' = NoEvent
            /\ IF t.idx < ScanDuration
               THEN /\ currentStep' = IF Mounted THEN t.idx + 1 ELSE currentStep
                    /\ timers' = rest \cup {Timer("step", t.idx + 1, t.due + 1, t.cl)}
                    /\ UNCHANGED <<isScanning, handsClosure, cameras,
                                   recognition, progressIntervalRef, intervals,
                                   completes, lastComplete>>
               ELSE /\ CompleteScan(t.cl, rest, progressIntervalRef, intervals)
                    /\ UNCHANGED currentStep
            /\ UNCHANGED <<features, liveStats, frames, prevHands>>
            /\ UNCHANGED <<scanProgress, cameraFacing, startTimeRef, now,
                           pendingStarts, scans, clicks>>
            /\ UNCHANGED <<pageVars, windowEvents, delivered>>
            /\ UNCHANGED extVars

\* what the progress intervals show once the clock reads t: below 100 the
\* callback only calls setScanProgress
ShownProgress(t) ==
    IF Mounted /\ intervals # {} /\ startTimeRef # -1
          /\ Progress(t - startTimeRef) < 100
    THEN Progress(t - startTimeRef)
    ELSE scanProgress

\* the progress interval of one scan ticks (every 100 ms) with
\* progress >= 100; its earlier ticks are part of Tick
ProgressInterval ==
    \E iv \in intervals :
        LET progress == Progress(now - startTimeRef)
        IN  /\ startTimeRef # -1
            /\ progress >= 100
            /\ scanProgress' = IF Mounted THEN progress ELSE scanProgress
            /\ lastEvent' = NoEvent
            /\ IF iv.cl.isScanning
               THEN CompleteScan(iv.cl, timers, 0,
                                 ClearInterval(intervals, progressIntervalRef))
               ELSE /\ intervals' = ClearInterval(intervals, progressIntervalRef)
                    /\ progressIntervalRef' = 0
                    /\ UNCHANGED <<isScanning, handsClosure, cameras,
                                   recognition, timers, completes,
                                   lastComplete>>
            /\ UNCHANGED <<features, liveStats, frames, prevHands>>
            /\ UNCHANGED <<currentStep, cameraFacing, startTimeRef, now,
                           pendingStarts, scans, clicks>>
            /\ UNCHANGED <<pageVars, windowEvents, delivered>>
            /\ UNCHANGED extVars

\* onClick of "Stop Scan"
StopScanClick ==
    /\ Mounted
    /\ isScanning
    /\ StopScan(timers)
    /\ lastEvent' = NoEvent
    /\ UNCHANGED <<features, liveStats, frames, prevHands>>
    /\ UNCHANGED <<scanProgress, currentStep, cameraFacing, startTimeRef, now,
                   pendingStarts, scans, clicks>>
    /\ UNCHANGED <<pageVars, histVars>>
    /\ UNCHANGED extVars

\* onClick of "Flip Camera"; the button is rendered only while isScanning,
\* so the flipCamera that runs is the one of a render with isScanning true
FlipCameraClick ==
    /\ Mounted
    /\ isScanning
    /\ clicks < MaxScans
    /\ clicks' = clicks + 1
    /\ StopScan(timers \cup {Timer("restart", clicks + 1, now,
                                   Closure(isScanning, features, liveStats))})
    /\ cameraFacing' = IF cameraFacing = "user" THEN "environment" ELSE "user"
    /\ lastEvent' = NoEvent
    /\ UNCHANGED <<features, liveStats, frames, prevHands>>
    /\ UNCHANGED <<scanProgress, currentStep, startTimeRef, now,
                   pendingStarts, scans>>
    /\ UNCHANGED <<pageVars, histVars>>
    /\ UNCHANGED extVars

\* the 500 ms timer of flipCamera fires: startScan() of the render in which
\* Flip Camera was clicked runs up to `await getUserMedia`
RestartTimer ==
    \E t \in timers :
        /\ t.kind = "restart"
        /\ t.due <= now
        /\ timers' = timers \ {t}
        /\ pendingStarts' = Append(pendingStarts, t.cl)
        /\ lastEvent' = NoEvent
        /\ UNCHANGED <<features, liveStats, frames, prevHands>>
        /\ UNCHANGED <<isScanning, scanProgress, currentStep, cameraFacing,
                       handsClosure, cameras, recognition, progressIntervalRef,
                       intervals, startTimeRef, now, scans, clicks, completes>>
        /\ UNCHANGED <<pageVars, histVars>>
        /\ UNCHANGED extVars

\* time passes (one unit is the 5 s of a guided step); the clock only
\* matters, and only runs, while a timer or an interval is pending.  Before
\* it does, a setTimeout callback that is due has run and a Camera that was
\* started has its stream; when it does, the progress intervals tick and a
\* stopped recogniser has returned what it had.
Tick ==
    /\ now < MaxTime
    /\ timers # {} \/ intervals # {}
    /\ \A t \in timers : t.due > now
    /\ \A k \in 1..Len(cameras) : cameras[k].state # "starting"
    /\ now' = now + 1
    /\ scanProgress' = ShownProgress(now + 1)
    /\ recognition' = IF recognition = "flushing" THEN "ended" ELSE recognition
    /\ lastEvent' = NoEvent
    /\ UNCHANGED <<features, liveStats, frames, prevHands>>
    /\ UNCHANGED <<isScanning, currentStep, cameraFacing,
                   handsClosure, cameras, progressIntervalRef,
                   intervals, startTimeRef, timers, pendingStarts, scans,
                   clicks, completes>>
    /\ UNCHANGED <<pageVars, histVars>>
    /\ UNCHANGED extVars

----------------------------------------------------------------------------
(* RecommendationCard and OnboardingPage *)

Modes == {"voice", "sign", "text", "gesture", "motor"}

\* App renders OnboardingPage: route '/' of a signed-in user, and
\* hasCompletedOnboarding false
OnboardingShown == route = "/" /\ ~hasCompletedOnboarding

\* confidences a recommendation can carry, in thousandths
Confidences == {0, 699, 700, 701, 1000}

\* what POST /assist-scan can answer
Recommendations == [mode : Modes, confidence : Confidences]

\* a mutant of IsHighConfidence: the gate is moved to 0.5
IsHighConfidenceHalf(confidence) == confidence > 500

\* const isHighConfidence = confidence > 0.7
IsHighConfidence(confidence) == confidence > ConfidenceGate

\* the Accept button of the card: rendered in step 'recommendation' with a
\* recommendation, disabled={!isHighConfidence}
AcceptEnabled ==
    /\ OnboardingShown
    /\ step = "recommendation"
    /\ recommendation # NoRecommendation
    /\ IsHighConfidence(recommendation.confidence)

\* the scanner leaves the page (step is no longer 'scan'): the effect's
\* cleanup stops cameraRef.current and recognitionRef.current, and the
\* component's state goes away.  Nothing reads the state, the cameras or the
\* recogniser of an unmounted scanner any more, so they are put back to their
\* initial values; its timers, its intervals and the refs they read stay.
UnmountScanner ==
    /\ cameras' = <<>>
    /\ recognition' = "null"
    /\ isScanning' = FALSE
    /\ handsClosure' = FALSE
    /\ scanProgress' = 0
    /\ currentStep' = 0
    /\ cameraFacing' = "user"
    /\ features' = InitialFeatures
    /\ liveStats' = InitialLiveStats
    /\ prevHands' = <<>>
    /\ windowEvents' = 0

\* unmount when the step was 'scan', nothing otherwise
LeaveScanStep ==
    IF Mounted THEN UnmountScanner
    ELSE UNCHANGED <<cameras, recognition, isScanning, handsClosure,
                     scanProgress, currentStep, cameraFacing, features,
                     liveStats, prevHands, windowEvents>>

Sections == {"purpose", "data", "usage", "rights"}

\* a mutant of AllRead: one section marked read is enough
AllReadAnySection == readSections # {} \/ manualCheckbox

\* const allRead = Object.values(readSections).every(Boolean) || manualCheckbox
AllRead == readSections = Sections \/ manualCheckbox

\* the modal is rendered: step === 'consent' mounts it, isOpen={showConsent}
ModalOpen == OnboardingShown /\ step = "consent" /\ showConsent

\* handleStartOnboarding; the ConsentModal mounts with isOpen true, its state
\* is the useState initial value and the reset effect sets it again
HandleStartOnboarding ==
    /\ OnboardingShown
    /\ step = "welcome"
    /\ showConsent' = TRUE
    /\ step' = "consent"
    /\ readSections' = {}
    /\ manualCheckbox' = FALSE
    /\ lastEvent' = [kind |-> "modalOpen", arg |-> <<>>]
    /\ UNCHANGED <<features, liveStats, frames, prevHands>>
    /\ UNCHANGED <<showManual, recommendation, error, submits, consentStore>>
    /\ UNCHANGED <<scanVars, histVars>>
    /\ UNCHANGED <<formVars, appVars>>

\* a section is marked read: the IntersectionObserver callback, or
\* handleSectionRead on focus or click
SectionRead ==
    \E section \in Sections :
        /\ ModalOpen
        /\ readSections' = readSections \cup {section}
        /\ lastEvent' = NoEvent
        /\ UNCHANGED <<features, liveStats, frames, prevHands>>
        /\ UNCHANGED <<scanVars, pageVars, histVars>>
        /\ UNCHANGED <<manualCheckbox, formVars, appVars>>

\* handleCheckboxChange: the box is drawn with checked={allRead ||
\* manualCheckbox}, a click hands over the opposite as e.target.checked
HandleCheckboxChange ==
    /\ ModalOpen
    /\ manualCheckbox' = ~(AllRead \/ manualCheckbox)
    /\ lastEvent' = NoEvent
    /\ UNCHANGED <<features, liveStats, frames, prevHands>>
    /\ UNCHANGED <<scanVars, pageVars, histVars>>
    /\ UNCHANGED <<readSections, formVars, appVars>>

\* handleConsentAccept; saved: whether localStorage.setItem went through
\* (saveConsent swallows its failure). The modal unmounts with the step.
HandleConsentAccept ==
    \E saved \in BOOLEAN :
        /\ ModalOpen
        /\ AllRead
        /\ consentStore' = IF saved THEN "cameraUsage" ELSE consentStore
        /\ showConsent' = FALSE
        /\ step' = "scan"
        /\ lastEvent' = [kind |-> "consentAccept",
                         arg |-> [saved |-> saved, read |-> readSections,
                                  box |-> manualCheckbox]]
        /\ UNCHANGED <<features, liveStats, frames, prevHands>>
        /\ UNCHANGED <<showManual, recommendation, error, submits>>
        /\ UNCHANGED <<scanVars, histVars>>
        /\ readSections' = {}
        /\ manualCheckbox' = FALSE
        /\ UNCHANGED <<formVars, appVars>>

\* handleConsentDecline
HandleConsentDecline ==
    \E saved \in BOOLEAN :
        /\ ModalOpen
        /\ consentStore' = IF saved THEN "noCameraUsage" ELSE consentStore
        /\ showConsent' = FALSE
        /\ step' = "manual"
        /\ showManual' = TRUE
        /\ lastEvent' = [kind |-> "consentDecline", arg |-> <<saved>>]
        /\ UNCHANGED <<features, liveStats, frames, prevHands>>
        /\ UNCHANGED <<recommendation, error, submits>>
        /\ UNCHANGED <<scanVars, histVars>>
        /\ readSections' = {}
        /\ manualCheckbox' = FALSE
        /\ UNCHANGED <<formVars, appVars>>

\* onClose of the consent modal: () => setShowConsent(false)
HandleConsentClose ==
    /\ ModalOpen
    /\ showConsent' = FALSE
    /\ lastEvent' = NoEvent
    /\ UNCHANGED <<features, liveStats, frames, prevHands>>
    /\ UNCHANGED <<step, showManual, recommendation, error, submits, consentStore>>
    /\ UNCHANGED <<scanVars, histVars>>
    /\ UNCHANGED extVars

\* handleSkipCamera: "Skip Camera - Manual Selection" on the welcome step,
\* "Skip Camera Scan" on the scan step
HandleSkipCamera ==
    /\ OnboardingShown
    /\ step \in {"welcome", "scan"}
    /\ showConsent' = FALSE
    /\ step' = "manual"
    /\ showManual' = TRUE
    /\ LeaveScanStep
    /\ lastEvent' = [kind |-> "skipCamera", arg |-> <<step>>]
    /\ UNCHANGED <<recommendation, error, submits, consentStore>>
    /\ UNCHANGED <<frames, progressIntervalRef, intervals, startTimeRef,
                   timers, now, pendingStarts, scans, clicks, completes>>
    /\ UNCHANGED <<lastComplete, delivered>>
    /\ UNCHANGED extVars

\* the 300 ms timer of completeScan fires: onScanComplete(scanResults), that
\* is handleScanComplete up to `await submitAssistScan`
DeliverTimer ==
    \E t \in timers :
        /\ t.kind = "deliver"
        /\ t.due <= now
        /\ timers' = timers \ {t}
        /\ delivered' = Append(delivered, t.cl)
        /\ step' = "processing"
        /\ submits' = Append(submits, t.cl.snap)
        /\ LeaveScanStep
        /\ lastEvent' = NoEvent
        /\ UNCHANGED <<showConsent, showManual, recommendation, error, consentStore>>
        /\ UNCHANGED <<frames, progressIntervalRef, intervals, startTimeRef,
                       now, pendingStarts, scans, clicks, completes>>
        /\ UNCHANGED lastComplete
        /\ UNCHANGED extVars

\* a mutant of SubmitResolve: the answer is stored and the step is left as
\* it is
SubmitResolveKeepsStep ==
    \E i \in 1..Len(submits), result \in Recommendations :
        /\ submits' = RemoveAt(submits, i)
        /\ recommendation' = result
        /\ step' = step
        /\ lastEvent' = [kind |-> "submitResolve", arg |-> result]
        /\ UNCHANGED <<features, liveStats, frames, prevHands>>
        /\ UNCHANGED <<showConsent, showManual, error, consentStore>>
        /\ UNCHANGED <<scanVars, histVars>>
        /\ UNCHANGED extVars

\* submitAssistScan resolves with `result`: the rest of handleScanComplete's
\* try block
SubmitResolve ==
    \E i \in 1..Len(submits), result \in Recommendations :
        /\ submits' = RemoveAt(submits, i)
        /\ recommendation' = result
        /\ step' = "recommendation"
        /\ lastEvent' = [kind |-> "submitResolve", arg |-> result]
        /\ UNCHANGED <<features, liveStats, frames, prevHands>>
        /\ UNCHANGED <<showConsent, showManual, error, consentStore>>
        /\ UNCHANGED <<scanVars, histVars>>
        /\ UNCHANGED extVars

\* submitAssistScan rejects: handleScanComplete's catch block
SubmitReject ==
    \E i \in 1..Len(submits) :
        /\ submits' = RemoveAt(submits, i)
        /\ error' = "Failed to process scan"
        /\ step' = "manual"
        /\ showManual' = TRUE
        /\ lastEvent' = [kind |-> "submitReject", arg |-> <<>>]
        /\ UNCHANGED <<features, liveStats, frames, prevHands>>
        /\ UNCHANGED <<showConsent, recommendation, consentStore>>
        /\ UNCHANGED <<scanVars, histVars>>
        /\ UNCHANGED extVars

\* a mutant of GetUserMediaReject: the catch block only logs the error
GetUserMediaRejectLogsOnly ==
    \E i \in 1..Len(pendingStarts) :
        /\ pendingStarts' = RemoveAt(pendingStarts, i)
        /\ lastEvent' = [kind |-> "scanError", arg |-> <<>>]
        /\ UNCHANGED <<features, liveStats, frames, prevHands>>
        /\ UNCHANGED <<isScanning, scanProgress, currentStep, cameraFacing,
                       handsClosure, cameras, recognition, progressIntervalRef,
                       intervals, startTimeRef, timers, now, scans, clicks,
                       completes>>
        /\ UNCHANGED <<pageVars, histVars>>
        /\ UNCHANGED extVars

\* getUserMedia rejects: startScan's catch block calls onError, that is
\* handleScanError
GetUserMediaReject ==
    \E i \in 1..Len(pendingStarts) :
        /\ pendingStarts' = RemoveAt(pendingStarts, i)
        /\ error' = "Camera access denied or unavailable"
        /\ step' = "manual"
        /\ showManual' = TRUE
        /\ LeaveScanStep
        /\ lastEvent' = [kind |-> "scanError", arg |-> <<>>]
        /\ UNCHANGED <<showConsent, recommendation, submits, consentStore>>
        /\ UNCHANGED <<frames, progressIntervalRef, intervals, startTimeRef,
                       timers, now, scans, clicks, completes>>
        /\ UNCHANGED <<lastComplete, delivered>>
        /\ UNCHANGED extVars

\* the recommendation card is rendered:
\* step === 'recommendation' && recommendation
CardShown ==
    /\ OnboardingShown
    /\ step = "recommendation"
    /\ recommendation # NoRecommendation

\* a mutant of HandleOverride: the two buttons work only when Accept does
HandleOverrideHighOnly ==
    /\ CardShown
    /\ IsHighConfidence(recommendation.confidence)
    /\ step' = "manual"
    /\ showManual' = TRUE
    /\ lastEvent' = [kind |-> "override", arg |-> <<>>]
    /\ UNCHANGED <<features, liveStats, frames, prevHands>>
    /\ UNCHANGED <<showConsent, recommendation, error, submits, consentStore>>
    /\ UNCHANGED <<scanVars, histVars>>
    /\ UNCHANGED extVars

\* handleOverride: "Choose Different Mode" and "Manual Selection" of the
\* card, neither of which has a disabled attribute
HandleOverride ==
    /\ CardShown
    /\ step' = "manual"
    /\ showManual' = TRUE
    /\ lastEvent' = [kind |-> "override", arg |-> <<>>]
    /\ UNCHANGED <<features, liveStats, frames, prevHands>>
    /\ UNCHANGED <<showConsent, recommendation, error, submits, consentStore>>
    /\ UNCHANGED <<scanVars, histVars>>
    /\ UNCHANGED extVars

\* "Dismiss" of the error message: () => setError(null)
DismissError ==
    /\ OnboardingShown
    /\ error # "null"
    /\ error' = "null"
    /\ lastEvent' = NoEvent
    /\ UNCHANGED <<features, liveStats, frames, prevHands>>
    /\ UNCHANGED <<step, showConsent, showManual, recommendation, submits,
                   consentStore>>
    /\ UNCHANGED <<scanVars, histVars>>
    /\ UNCHANGED extVars

----------------------------------------------------------------------------
(* ManualSelectionForm and the completion handlers of OnboardingPage *)

\* pending `await saveUserPreferences` calls the model follows
MaxSaves == 2

\* the form is rendered: {showManual && ...}, whatever the step
FormShown == OnboardingShown /\ showManual

\* a mutant of ConfirmEnabled: Confirm is enabled with nothing selected
ConfirmEnabledAlways == FormShown

\* the Confirm button of the form: disabled={!selectedMode}
ConfirmEnabled == FormShown /\ selectedMode # "null"

\* handleSelect(modeId)
HandleSelectMode(modeId) ==
    /\ FormShown
    /\ selectedMode' = modeId
    /\ lastEvent' = [kind |-> "select", arg |-> <<modeId>>]
    /\ UNCHANGED <<features, liveStats, frames, prevHands>>
    /\ UNCHANGED <<scanVars, pageVars, histVars>>
    /\ UNCHANGED <<preferences, saves, navTimers, modalVars, appVars>>

\* a click on one of the five mode cards of the form
HandleSelect == \E modeId \in Modes : HandleSelectMode(modeId)

\* the preferences handleManualSelection builds, as savePreferences stores
\* them (the time stamps are left out)
ManualPreferences(mode) ==
    [assistMode |-> mode, source |-> "manual_selection", confidence |-> -1,
     completedOnboarding |-> TRUE]

\* the preferences handleAcceptRecommendation builds
CameraPreferences(mode) ==
    [assistMode |-> mode, source |-> "camera_recommendation",
     confidence |-> recommendation.confidence, completedOnboarding |-> TRUE]

\* handleSubmit of the form calls onSelect(selectedMode), that is
\* handleManualSelection, up to `await saveUserPreferences`; saved: whether
\* localStorage.setItem went through
HandleManualSelection ==
    \E saved \in BOOLEAN :
        /\ ConfirmEnabled
        /\ saves + navTimers < MaxSaves
        /\ IF saved
              THEN /\ preferences' = ManualPreferences(selectedMode)
                   /\ saves' = saves + 1
                   /\ error' = error
              ELSE /\ error' = "Failed to save preferences"
                   /\ UNCHANGED <<preferences, saves>>
        /\ lastEvent' = [kind |-> "manualSelection", arg |-> <<saved>>]
        /\ UNCHANGED <<features, liveStats, frames, prevHands>>
        /\ UNCHANGED <<step, showConsent, showManual, recommendation, submits,
                       consentStore>>
        /\ UNCHANGED <<scanVars, histVars>>
        /\ UNCHANGED <<selectedMode, navTimers, modalVars, appVars>>

\* handleAcceptRecommendation(mode), called by the Accept button of the
\* card, up to `await saveUserPreferences`; the result of savePreferences
\* is not looked at
HandleAcceptRecommendation ==
    \E saved \in BOOLEAN :
        /\ AcceptEnabled
        /\ saves + navTimers < MaxSaves
        /\ preferences' = IF saved THEN CameraPreferences(recommendation.mode)
                                   ELSE preferences
        /\ saves' = saves + 1
        /\ lastEvent' = [kind |-> "accept", arg |-> <<saved>>]
        /\ UNCHANGED <<features, liveStats, frames, prevHands>>
        /\ UNCHANGED <<scanVars, pageVars, histVars>>
        /\ UNCHANGED <<selectedMode, navTimers, modalVars, appVars>>

\* a mutant of SaveSettle: a rejection of saveUserPreferences reaches the
\* outer catch block (error message, no 'complete', no timer)
SaveSettleBackendRequired ==
    \E ok \in BOOLEAN :
        /\ saves > 0
        /\ saves' = saves - 1
        /\ step' = IF OnboardingShown /\ ok THEN "complete" ELSE step
        /\ error' = IF ok THEN error ELSE "Failed to save preferences"
        /\ navTimers' = IF ok THEN navTimers + 1 ELSE navTimers
        /\ lastEvent' = [kind |-> "saveSettle", arg |-> <<ok>>]
        /\ UNCHANGED <<features, liveStats, frames, prevHands>>
        /\ UNCHANGED <<showConsent, showManual, recommendation, submits,
                       consentStore>>
        /\ UNCHANGED <<scanVars, histVars>>
        /\ UNCHANGED <<selectedMode, preferences, modalVars, appVars>>

\* saveUserPreferences settles (a rejection is caught and logged): the
\* handler goes on with setStep('complete') and the 2 s timer
SaveSettle ==
    \E ok \in BOOLEAN :
        /\ saves > 0
        /\ saves' = saves - 1
        /\ step' = IF OnboardingShown THEN "complete" ELSE step
        /\ navTimers' = navTimers + 1
        /\ lastEvent' = [kind |-> "saveSettle", arg |-> <<ok>>]
        /\ UNCHANGED <<features, liveStats, frames, prevHands>>
        /\ UNCHANGED <<showConsent, showManual, recommendation, error, submits,
                       consentStore>>
        /\ UNCHANGED <<scanVars, histVars>>
        /\ UNCHANGED <<selectedMode, preferences, modalVars, appVars>>

\* a mutant of HandleDeleteCameraData: the button calls deleteAllUserData
HandleDeleteCameraDataAll ==
    /\ CardShown
    /\ localKeys' = localKeys \ {CameraDataKey}
    /\ preferences' = NoPreferences
    /\ consentStore' = "null"
    /\ lastEvent' = [kind |-> "deleteCameraData", arg |-> <<>>]
    /\ UNCHANGED <<features, liveStats, frames, prevHands>>
    /\ UNCHANGED <<step, showConsent, showManual, recommendation, error,
                   submits>>
    /\ UNCHANGED <<scanVars, histVars>>
    /\ UNCHANGED <<modalVars, selectedMode, saves, navTimers>>
    /\ UNCHANGED <<route, hasCompletedOnboarding, hub>>

\* handleDeleteCameraData, "Delete Camera Data" under the card:
\* clearCameraData() removes 'inclusiveai_camera_data', then an alert
HandleDeleteCameraData ==
    /\ CardShown
    /\ localKeys' = localKeys \ {CameraDataKey}
    /\ lastEvent' = [kind |-> "deleteCameraData", arg |-> <<>>]
    /\ UNCHANGED <<features, liveStats, frames, prevHands>>
    /\ UNCHANGED <<scanVars, pageVars, histVars>>
    /\ UNCHANGED <<modalVars, formVars>>
    /\ UNCHANGED <<route, hasCompletedOnboarding, hub>>

----------------------------------------------------------------------------
(* App: the routes, and AssistiveHub *)

\* the 2 s timer of a completion handler fires: onComplete?.() is
\* setHasCompletedOnboarding(true), then navigate('/hub')
CompleteTimer ==
    /\ navTimers > 0
    /\ navTimers' = navTimers - 1
    /\ hasCompletedOnboarding' = TRUE
    /\ route' = "/hub"
    /\ hub' = IF route = "/hub" THEN hub
                                ELSE [HubUnmounted EXCEPT !.status = "mounting"]
    /\ lastEvent' = [kind |-> "completeTimer", arg |-> <<>>]
    /\ UNCHANGED <<features, liveStats, frames, prevHands>>
    /\ UNCHANGED <<scanVars, pageVars, histVars>>
    /\ UNCHANGED <<selectedMode, preferences, saves, modalVars, localKeys>>

\* route '/' with hasCompletedOnboarding true renders
\* <Navigate to="/hub" replace />
RootRedirect ==
    /\ route = "/"
    /\ hasCompletedOnboarding
    /\ route' = "/hub"
    /\ hub' = [HubUnmounted EXCEPT !.status = "mounting"]
    /\ lastEvent' = [kind |-> "rootRedirect", arg |-> <<>>]
    /\ UNCHANGED <<features, liveStats, frames, prevHands>>
    /\ UNCHANGED <<scanVars, pageVars, histVars>>
    /\ UNCHANGED <<hasCompletedOnboarding, modalVars, formVars, localKeys>>

\* the effect of AssistiveHub after it mounted: without stored preferences
\* that completed onboarding it navigates to '/', else it loads them
HubEffect ==
    /\ route = "/hub"
    /\ hub.status = "mounting"
    /\ IF preferences = NoPreferences \/ ~preferences.completedOnboarding
          THEN /\ route' = "/"
               /\ hub' = HubUnmounted
          ELSE /\ route' = route
               /\ hub' = [status |-> "ready", preferences |-> preferences]
    /\ lastEvent' = [kind |-> "hubEffect", arg |-> <<>>]
    /\ UNCHANGED <<features, liveStats, frames, prevHands>>
    /\ UNCHANGED <<scanVars, pageVars, histVars>>
    /\ UNCHANGED <<hasCompletedOnboarding, modalVars, formVars, localKeys>>

\* handleChangeMode(newMode) of the hub's settings; saved: whether
\* localStorage.setItem went through
HandleChangeMode ==
    \E newMode \in Modes, saved \in BOOLEAN :
        LET updated == [hub.preferences EXCEPT !.assistMode = newMode]
        IN  /\ route = "/hub"
            /\ hub.status = "ready"
            /\ preferences' = IF saved THEN updated ELSE preferences
            /\ hub' = [hub EXCEPT !.preferences = updated]
            /\ lastEvent' = [kind |-> "changeMode", arg |-> <<newMode>>]
            /\ UNCHANGED <<features, liveStats, frames, prevHands>>
            /\ UNCHANGED <<scanVars, pageVars, histVars>>
            /\ UNCHANGED <<route, hasCompletedOnboarding, modalVars, localKeys>>
            /\ UNCHANGED <<selectedMode, saves, navTimers>>

\* handleDeleteData with window.confirm answered yes: deleteAllUserData()
\* removes the stored preferences and consent, then navigate('/')
HandleDeleteData ==
    /\ route = "/hub"
    /\ hub.status = "ready"
    /\ preferences' = NoPreferences
    /\ consentStore' = "null"
    /\ localKeys' = localKeys \ {CameraDataKey}
    /\ route' = "/"
    /\ hub' = HubUnmounted
    /\ lastEvent' = [kind |-> "deleteData", arg |-> <<>>]
    /\ UNCHANGED <<features, liveStats, frames, prevHands>>
    /\ UNCHANGED <<step, showConsent, showManual, recommendation, error,
                   submits>>
    /\ UNCHANGED <<scanVars, histVars>>
    /\ UNCHANGED <<hasCompletedOnboarding, modalVars>>
    /\ UNCHANGED <<selectedMode, saves, navTimers>>

----------------------------------------------------------------------------
(* The Scoring Engine behind POST /assist-scan.  Scores are in thousandths, *)
(* handSignFreq in steps of 0.2 as in the accumulator (FreqCap is 10).      *)

\* a mutant of Clamp01: the lower bound only
Clamp01NoCeiling(x) == IF x < 0 THEN 0 ELSE x

\* clamp to [0, 1]
Clamp01(x) == IF x < 0 THEN 0 ELSE IF x > 1000 THEN 1000 ELSE x

\* voice: speech is the large contribution, unstable gaze adds to it
VoiceScore(v) ==
    Clamp01((IF v.speechDetected THEN 900 ELSE 100)
            + (IF v.gazePattern = "inconsistent" THEN 100 ELSE 0))

\* a mutant of SignScore: very frequent movement is taken for gesturing and
\* counts against signing
SignScorePeaked(v) ==
    Clamp01((IF v.handSignFreq > 40 THEN 28 * (80 - v.handSignFreq)
                                    ELSE 28 * v.handSignFreq)
            - (IF v.speechDetected THEN 100 ELSE 0))

\* sign: handSignFreq normalised by its range, times the base weight;
\* speech counts against it
SignScore(v) ==
    Clamp01(28 * v.handSignFreq - (IF v.speechDetected THEN 100 ELSE 0))

\* text: the fallback with a moderate baseline, lowered by speech and by
\* hand movement
TextScore(v) ==
    Clamp01(500 - (IF v.speechDetected THEN 200 ELSE 0) - 8 * v.handSignFreq)

\* gesture: hand movement up to the middle of the range, plus posture
GestureScore(v) ==
    Clamp01(12 * Min(v.handSignFreq, 25)
            + (IF v.posture = "standing" THEN 100 ELSE 0))

\* motor: seated posture, lowered by hand movement
MotorScore(v) ==
    Clamp01((IF v.posture = "seated" THEN 600 ELSE 100) - 12 * v.handSignFreq)

\* score(vector): the five scores, each computed on its own
Score(v) ==
    [voice |-> VoiceScore(v), sign |-> SignScore(v), text |-> TextScore(v),
     gesture |-> GestureScore(v), motor |-> MotorScore(v)]

\* the fixed priority order of the tie-break
Priority == <<"voice", "sign", "text", "gesture", "motor">>

RECURSIVE BestFromLast(_, _, _)
\* a mutant of BestFrom: a later mode replaces the best one on equal score
BestFromLast(scores, i, best) ==
    IF i > Len(Priority) THEN best
    ELSE BestFromLast(scores, i + 1,
                      IF scores[Priority[i]] >= scores[best] THEN Priority[i]
                                                              ELSE best)

RECURSIVE BestFrom(_, _, _)
\* the scan for the arg-max in priority order: a later mode replaces the
\* best one only with a strictly higher score
BestFrom(scores, i, best) ==
    IF i > Len(Priority) THEN best
    ELSE BestFrom(scores, i + 1,
                  IF scores[Priority[i]] > scores[best] THEN Priority[i]
                                                         ELSE best)

\* the second highest score, for RecommendGap
SecondScore(scores, mode) ==
    CHOOSE x \in {scores[m] : m \in Modes \ {mode}} :
        \A m \in Modes \ {mode} : scores[m] <= x

\* a mutant of Recommend: confidence is the gap between the first and the
\* second score
RecommendGap(v) ==
    LET scores == Score(v)
        mode == BestFrom(scores, 2, Priority[1])
    IN  [ok |-> TRUE, mode |-> mode,
         confidence |-> scores[mode] - SecondScore(scores, mode),
         scores |-> scores]

\* the Recommendation: the arg-max mode, its score as confidence, and the
\* score map (cues and explainability are left out)
Recommend(v) ==
    LET scores == Score(v)
        mode == BestFrom(scores, 2, Priority[1])
    IN  [ok |-> TRUE, mode |-> mode, confidence |-> scores[mode],
         scores |-> scores]

\* a mutant of ValidVector: nothing is rejected, the scores clamp what comes
ValidVectorLenient(v) == TRUE

\* the validation of the engine: every field in its range
ValidVector(v) ==
    /\ v.handSignFreq \in 0..FreqCap
    /\ v.speechDetected \in BOOLEAN
    /\ v.gazePattern \in {"normal", "inconsistent"}
    /\ v.posture \in {"seated", "standing"}

\* the answer to POST /assist-scan: a Recommendation, or the validation
\* error InvalidFeatureVector
AssistScan(v) ==
    IF ValidVector(v) THEN Recommend(v)
    ELSE [ok |-> FALSE, mode |-> "none", confidence |-> 0,
          scores |-> [m \in {} |-> 0]]

\* the request is scored and submitAssistScan resolves: the try block of
\* handleScanComplete stores the Recommendation
AssistScanResolve ==
    \E i \in 1..Len(submits) :
        LET response == AssistScan(submits[i])
        IN  /\ response.ok
            /\ submits' = RemoveAt(submits, i)
            /\ recommendation' = [mode |-> response.mode,
                                  confidence |-> response.confidence]
            /\ step' = "recommendation"
            /\ lastEvent' = [kind |-> "assistScan",
                             arg |-> [features |-> submits[i],
                                      response |-> response]]
            /\ UNCHANGED <<features, liveStats, frames, prevHands>>
            /\ UNCHANGED <<showConsent, showManual, error, consentStore>>
            /\ UNCHANGED <<scanVars, histVars>>
            /\ UNCHANGED extVars

\* the request fails validation and submitAssistScan throws: the catch
\* block of handleScanComplete
AssistScanReject ==
    \E i \in 1..Len(submits) :
        LET response == AssistScan(submits[i])
        IN  /\ ~response.ok
            /\ submits' = RemoveAt(submits, i)
            /\ error' = "Failed to process scan"
            /\ step' = "manual"
            /\ showManual' = TRUE
            /\ lastEvent' = [kind |-> "assistScan",
                             arg |-> [features |-> submits[i],
                                      response |-> response]]
            /\ UNCHANGED <<features, liveStats, frames, prevHands>>
            /\ UNCHANGED <<showConsent, recommendation, consentStore>>
            /\ UNCHANGED <<scanVars, histVars>>
            /\ UNCHANGED extVars

----------------------------------------------------------------------------
(* Spec: the onboarding page with its camera scanner *)

Init ==
    /\ features = InitialFeatures
    /\ liveStats = InitialLiveStats
    /\ frames = 0
    /\ lastEvent = NoEvent
    /\ prevHands = <<>>
    /\ ScanInit
    /\ ExtInit
    /\ localKeys = PasswordLoginKeys
    /\ PageInit
    /\ HistInit

\* the scanner's part of the page: what can happen from the moment
\* OnboardingPage shows step 'scan', up to the hand-over of the results
ScanNext ==
    \/ HandleSkipCamera
    \/ StartScanClick
    \/ StartScanResolve
    \/ GetUserMediaReject
    \/ CameraAcquire
    \/ HandsOnResults
    \/ PoseOnResults
    \/ RecognitionOnResult
    \/ GuidedStepTimer
    \/ ProgressInterval
    \/ StopScanClick
    \/ FlipCameraClick
    \/ RestartTimer
    \/ DeliverTimer
    \/ Tick

\* the page after the hand-over: the answer of POST /assist-scan and the
\* recommendation card
PageNext ==
    \/ SubmitResolve
    \/ SubmitReject
    \/ HandleOverride
    \/ DismissError

\* the page after the hand-over up to step 'complete': the card, the manual
\* form and the two completion handlers
ChoiceNext ==
    \/ PageNext
    \/ HandleDeleteCameraData
    \/ HandleAcceptRecommendation
    \/ HandleSelect
    \/ HandleManualSelection
    \/ SaveSettle

Next ==
    \/ HandleStartOnboarding
    \/ HandleConsentAccept
    \/ HandleConsentDecline
    \/ HandleConsentClose
    \/ SectionRead
    \/ HandleCheckboxChange
    \/ ScanNext
    \/ ChoiceNext
    \/ CompleteTimer
    \/ RootRedirect
    \/ HubEffect
    \/ HandleChangeMode
    \/ HandleDeleteData

Spec == Init /\ [][Next]_vars

\* the state in which CameraScanner is constructed: handleConsentAccept has
\* stored the consent and set step 'scan'
ScanMountInit ==
    /\ features = InitialFeatures
    /\ liveStats = InitialLiveStats
    /\ frames = 0
    /\ lastEvent = NoEvent
    /\ prevHands = <<>>
    /\ ScanInit
    /\ ExtInit
    /\ localKeys = PasswordLoginKeys
    /\ HistInit
    /\ step = "scan"
    /\ showConsent = FALSE
    /\ showManual = FALSE
    /\ recommendation = NoRecommendation
    /\ error = "null"
    /\ submits = <<>>
    /\ consentStore = "cameraUsage"

SpecScan == ScanMountInit /\ [][ScanNext]_vars

\* feature vectors completeScan can hand over
SubmittedFeatures ==
    [handSignFreq : {0, 1, FreqCap},
     speechDetected : BOOLEAN,
     gazePattern : {"normal", "inconsistent"},
     posture : {"standing", "seated"},
     interactionBehavior : {"null"}]

\* the state handleScanComplete leaves at `await submitAssistScan`: step
\* 'processing', the scanner unmounted, the request in flight (two requests
\* when completeScan ran twice for the scan)
ProcessingInit ==
    /\ features = InitialFeatures
    /\ liveStats = InitialLiveStats
    /\ frames = 0
    /\ lastEvent = NoEvent
    /\ prevHands = <<>>
    /\ ScanInit
    /\ ExtInit
    /\ localKeys \in {PasswordLoginKeys, PasswordLoginKeys \cup {CameraDataKey}}
    /\ step = "processing"
    /\ showConsent = FALSE
    /\ showManual = FALSE
    /\ recommendation = NoRecommendation
    /\ error = "null"
    /\ consentStore = "cameraUsage"
    /\ lastComplete = NoComplete
    /\ windowEvents = 0
    /\ \E f \in SubmittedFeatures, n \in 1..2 :
          /\ submits = [i \in 1..n |-> f]
          /\ delivered = [i \in 1..n |-> [scan |-> 1, isScanning |-> n = 2,
                                           snap |-> f]]

SpecPage == ProcessingInit /\ [][PageNext]_vars

\* the hand-over of a first scan in which nothing was observed: one request
\* in flight, carrying the defaults
ChoiceInit ==
    /\ ProcessingInit
    /\ submits = <<Finalize(InitialFeatures, InitialLiveStats)>>

SpecChoice == ChoiceInit /\ [][ChoiceNext]_vars

\* the way to the scan step or around it: welcome, the consent modal, and
\* the manual form up to step 'complete'
ConsentNext ==
    \/ HandleStartOnboarding
    \/ SectionRead
    \/ HandleCheckboxChange
    \/ HandleConsentAccept
    \/ HandleConsentDecline
    \/ HandleConsentClose
    \/ HandleSkipCamera
    \/ HandleSelect
    \/ HandleManualSelection
    \/ SaveSettle
    \/ DismissError

SpecConsent == Init /\ [][ConsentNext]_vars

\* request bodies the engine is checked on: handSignFreq around the ends of
\* its range and around the points where two scores cross, one below and
\* one above the range, and a gazePattern outside the enumeration
ScoreInputs ==
    [handSignFreq : {-1, 0, 1, 17, 18, 25, 26, 35, 36, 40, FreqCap - 1,
                     FreqCap, FreqCap + 1},
     speechDetected : BOOLEAN,
     gazePattern : {"normal", "inconsistent", "sideways"},
     posture : {"standing", "seated"},
     interactionBehavior : {"null"}]

\* step 'processing' with one request in flight, as in ProcessingInit, the
\* request body being any of ScoreInputs
ScoreInit ==
    /\ features = InitialFeatures
    /\ liveStats = InitialLiveStats
    /\ frames = 0
    /\ lastEvent = NoEvent
    /\ prevHands = <<>>
    /\ ScanInit
    /\ ExtInit
    /\ localKeys = PasswordLoginKeys
    /\ step = "processing"
    /\ showConsent = FALSE
    /\ showManual = FALSE
    /\ recommendation = NoRecommendation
    /\ error = "null"
    /\ consentStore = "cameraUsage"
    /\ lastComplete = NoComplete
    /\ windowEvents = 0
    /\ \E v \in ScoreInputs :
          /\ submits = <<v>>
          /\ delivered = <<[scan |-> 1, isScanning |-> FALSE, snap |-> v]>>

\* the request is answered by the Scoring Engine
ScoreNext ==
    \/ AssistScanResolve
    \/ AssistScanReject

SpecScore == ScoreInit /\ [][ScoreNext]_vars

\* App as its mount effect leaves it, for a signed-in user: local storage
\* is empty or holds preferences of a completed onboarding, and
\* hasCompletedOnboarding is read from it
AppInit ==
    /\ features = InitialFeatures
    /\ liveStats = InitialLiveStats
    /\ frames = 0
    /\ lastEvent = NoEvent
    /\ prevHands = <<>>
    /\ ScanInit
    /\ PageInit
    /\ HistInit
    /\ readSections = {}
    /\ manualCheckbox = FALSE
    /\ selectedMode = "null"
    /\ saves = 0
    /\ navTimers = 0
    /\ route = "/"
    /\ hub = HubUnmounted
    /\ localKeys \in SUBSET (LoginKeys \cup {CameraDataKey})
    /\ preferences \in {NoPreferences} \cup {ManualPreferences(m) : m \in Modes}
    /\ hasCompletedOnboarding = preferences.completedOnboarding

\* the routes and the hub, with the manual path of onboarding that leads to
\* the hub
AppNext ==
    \/ HandleSkipCamera
    \/ HandleSelect
    \/ HandleManualSelection
    \/ SaveSettle
    \/ CompleteTimer
    \/ RootRedirect
    \/ HubEffect
    \/ HandleChangeMode
    \/ HandleDeleteData

\* the Router and the effects run when they can
SpecApp ==
    /\ AppInit
    /\ [][AppNext]_vars
    /\ WF_vars(RootRedirect)
    /\ WF_vars(HubEffect)

\* from the answer of the scoring request through the card or the manual
\* form to the hub
LandingNext ==
    \/ SubmitResolve
    \/ HandleOverride
    \/ HandleAcceptRecommendation
    \/ HandleSelect
    \/ HandleManualSelection
    \/ SaveSettle
    \/ CompleteTimer
    \/ RootRedirect
    \/ HubEffect
    \/ HandleChangeMode

\* the 2 s timers fire, and the Router and the effects run when they can
SpecLanding ==
    /\ ChoiceInit
    /\ [][LandingNext]_vars
    /\ WF_vars(CompleteTimer)
    /\ WF_vars(RootRedirect)
    /\ WF_vars(HubEffect)

\* the scan step of a user whose camera is never granted (getUserMedia
\* only rejects), followed through the manual form to step 'complete'
FallbackNext ==
    \/ StartScanClick
    \/ GetUserMediaReject
    \/ HandleSkipCamera
    \/ HandleSelect
    \/ HandleManualSelection
    \/ SaveSettle
    \/ DismissError

SpecFallback == ScanMountInit /\ [][FallbackNext]_vars

----------------------------------------------------------------------------
(* SpecAcc: the accumulator alone.  The callbacks are applied to a state   *)
(* the component can be in: the state after construction, or a warmed-up   *)
(* state near the cap (k moving single-hand frames between WristA and      *)
(* WristC followed by stationary frames at WristA, WarmFrames in all).     *)

WarmFeatures(k) ==
    [InitialFeatures EXCEPT
        !.handSignFreq = k,
        !.handMovementHistory = [i \in 1..HistoryKeep |-> WristA]]

WarmLiveStats ==
    [InitialLiveStats EXCEPT !.handsDetected = 1, !.gesturesCount = WarmFrames]

\* speechHistory after SpeechKeep + 1 final results
WarmSpeech == [i \in 1..(SpeechKeep + 1) |-> "hello"]

AccInit ==
    /\ ScanInit
    /\ ExtInit
    /\ localKeys = PasswordLoginKeys
    /\ PageInit
    /\ HistInit
    /\ frames = 0
    /\ lastEvent = NoEvent
    /\ \/ /\ features = InitialFeatures
          /\ liveStats = InitialLiveStats
          /\ prevHands = <<>>
       \/ /\ \E k \in (FreqCap - WarmGap)..FreqCap, sp \in {<<>>, WarmSpeech} :
                /\ features = [WarmFeatures(k) EXCEPT
                                  !.speechDetected = (sp # <<>>),
                                  !.speechHistory = sp]
                /\ liveStats = [WarmLiveStats EXCEPT
                                   !.speechDetected = (sp # <<>>)]
          /\ prevHands = <<WristA>>

\* hands.onResults(results) with its guard passed
AccHandFrame ==
    \E r \in HandResults :
        /\ frames < MaxFrames
        /\ LET fl == HandsOnResultsBody(<<features, liveStats>>, r)
           IN  /\ features' = fl[1]
               /\ liveStats' = fl[2]
        /\ frames' = frames + 1
        /\ lastEvent' = [kind |-> "hand", arg |-> r]
        /\ prevHands' = IF r.present THEN r.hands ELSE prevHands
        /\ UNCHANGED <<scanVars, pageVars, histVars>>
        /\ UNCHANGED extVars

\* pose.onResults(results) with its guard passed
AccPoseFrame ==
    \E r \in PoseResults :
        /\ frames < MaxFrames
        /\ LET fl == PoseOnResultsBody(<<features, liveStats>>, r)
           IN  /\ features' = fl[1]
               /\ liveStats' = fl[2]
        /\ frames' = frames + 1
        /\ lastEvent' = [kind |-> "pose", arg |-> r]
        /\ UNCHANGED prevHands
        /\ UNCHANGED <<scanVars, pageVars, histVars>>
        /\ UNCHANGED extVars

\* recognition.onresult(event)
AccSpeechResult ==
    \E e \in SpeechEvents :
        /\ frames < MaxFrames
        /\ LET fl == OnResult(<<features, liveStats>>, e)
           IN  /\ features' = fl[1]
               /\ liveStats' = fl[2]
        /\ frames' = frames + 1
        /\ lastEvent' = [kind |-> "speech", arg |-> e]
        /\ UNCHANGED prevHands
        /\ UNCHANGED <<scanVars, pageVars, histVars>>
        /\ UNCHANGED extVars

AccNext == AccHandFrame \/ AccPoseFrame \/ AccSpeechResult

SpecAcc == AccInit /\ [][AccNext]_vars

----------------------------------------------------------------------------
(* Claims about the accumulator (checked under SpecAcc) *)

HasFinal(results) == \E i \in 1..Len(results) : results[i].isFinal

\* C3: over any sequence of perception events handSignFreq never decreases,
\* one event changes it by 0 or by exactly one step of 0.2, it stays within
\* [0, 10], and once at 10 it remains 10.
C3_FreqMonotoneStepCapped ==
    [][/\ features'.handSignFreq >= features.handSignFreq
       /\ features'.handSignFreq - features.handSignFreq \in {0, FreqStep}
       /\ features.handSignFreq \in 0..FreqCap
       /\ features'.handSignFreq \in 0..FreqCap
       /\ (features.handSignFreq = FreqCap => features'.handSignFreq = FreqCap)
      ]_vars

\* C3 witness: a hand frame whose wrist moved has been handled and the
\* accumulator sits at the cap after three frames.
C3_Witness ==
    /\ lastEvent.kind = "hand"
    /\ Moved(features.handMovementHistory)
    /\ features.handSignFreq = FreqCap
    /\ frames = MaxFrames

\* C4 (as claimed): a hand frame whose detected hands are exactly where they
\* were in the previous hand frame never increases handSignFreq.
C4_StationaryNeverIncrements ==
    [][(/\ lastEvent'.kind = "hand"
        /\ lastEvent'.arg.present
        /\ prevHands # <<>>
        /\ lastEvent'.arg.hands = prevHands)
          => features'.handSignFreq = features.handSignFreq]_vars

\* C5: speechDetected after an event is its value before, OR-ed with "the
\* event is a speech result that contains a final result": interim results
\* never set it and no hand, pose or speech event resets it.
C5_SpeechIsOrOfFinals ==
    [][features'.speechDetected =
          (\/ features.speechDetected
           \/ (lastEvent'.kind = "speech" /\ HasFinal(lastEvent'.arg)))]_vars

\* C5 witness: speech was detected earlier and a later hand or pose frame
\* has been handled without resetting it.
C5_Witness ==
    /\ features.speechDetected
    /\ lastEvent.kind \in {"hand", "pose"}
    /\ lastEvent.arg.present

LegsPresent(r) ==
    /\ r.leftHip # Absent /\ r.rightHip # Absent
    /\ r.leftAnkle # Absent /\ r.rightAnkle # Absent

\* C7: a hand frame changes only handSignFreq and handMovementHistory and
\* changes nothing when it carries no hand; a pose frame changes only
\* posture and gazePattern and leaves posture alone when one of the four
\* hip / ankle landmarks is missing (gazePattern when the nose is missing);
\* a speech result changes only speechDetected and speechHistory.
C7_FrameEffects ==
    [][/\ lastEvent'.kind = "hand" =>
            /\ features' = [features EXCEPT
                    !.handSignFreq = features'.handSignFreq,
                    !.handMovementHistory = features'.handMovementHistory]
            /\ (~lastEvent'.arg.present \/ lastEvent'.arg.hands = <<>>)
                    => features' = features
       /\ lastEvent'.kind = "pose" =>
            /\ features' = [features EXCEPT
                    !.posture = features'.posture,
                    !.gazePattern = features'.gazePattern]
            /\ (~lastEvent'.arg.present \/ ~LegsPresent(lastEvent'.arg))
                    => features'.posture = features.posture
            /\ (~lastEvent'.arg.present \/ lastEvent'.arg.nose = Absent)
                    => features'.gazePattern = features.gazePattern
       /\ lastEvent'.kind = "speech" =>
            features' = [features EXCEPT
                    !.speechDetected = features'.speechDetected,
                    !.speechHistory = features'.speechHistory]
      ]_vars

\* C7 witness: a pose frame that lacks a hip or ankle landmark has been
\* handled while posture held the classification of an earlier frame.
C7_Witness ==
    /\ lastEvent.kind = "pose"
    /\ lastEvent.arg.present
    /\ ~LegsPresent(lastEvent.arg)
    /\ features.posture = "seated"

----------------------------------------------------------------------------
(* Claims about the recommendation card (checked under SpecPage) *)

\* C1 (as claimed): in step 'recommendation' the Accept button is enabled
\* exactly when the recommendation's confidence is >= 0.7, so a confidence
\* of exactly 0.7 enables it.
C1_AcceptEnabledFromGate ==
    (step = "recommendation" /\ recommendation # NoRecommendation)
        => (AcceptEnabled <=> recommendation.confidence >= ConfidenceGate)

----------------------------------------------------------------------------
(* Claims about the scanner (checked under SpecScan) *)

\* a completeScan has run in the mounted scanner, called by a callback of
\* the scan that was in flight
OwnCompletion ==
    /\ lastComplete.scan # 0
    /\ lastComplete.mounted
    /\ lastComplete.scan = lastComplete.latest

\* C2 (as claimed): the feature vector completeScan builds for
\* onScanComplete equals the state the perception callbacks have accumulated
\* when it runs (with 'normal' / 'standing' for a gaze / posture no pose
\* frame has set).
C2_ResultsAreAccumulatedState ==
    OwnCompletion => lastComplete.results = lastComplete.live

\* C6 (as claimed): a scan in whose window no perception event was handled
\* ends with completeScan building the vector of neutral defaults.
C6_EmptyWindowGivesNeutralDefaults ==
    (OwnCompletion /\ lastComplete.events = 0)
        => lastComplete.results = Finalize(InitialFeatures, InitialLiveStats)

\* C8 (as claimed): Stop Scan finalizes the window: as part of the stop,
\* completeScan runs and schedules the hand-over to onScanComplete.
C8_StopFinalizes ==
    [][StopScanClick =>
          /\ completes' = completes + 1
          /\ \E t \in timers' \ timers : t.kind = "deliver"]_vars

\* C9 (as claimed): when a scan starts after the one before it was stopped
\* (Stop Scan, Flip Camera) or completed, no guided-step timer and no
\* progress interval of an earlier scan is pending any more.
C9_EarlierScanDiscarded ==
    [][(scans' = scans + 1 /\ scans >= 1 /\ ~isScanning) =>
          /\ \A t \in timers' : t.kind = "step" => t.cl.scan = scans'
          /\ \A iv \in intervals' : iv.id = scans']_vars

\* C10 (as claimed): when a scan starts after the one before it was stopped
\* or completed, handSignFreq, speechDetected, gazePattern, posture and both
\* histories have their initial values.
C10_FreshAccumulator ==
    [][(scans' = scans + 1 /\ scans >= 1 /\ ~isScanning) =>
          /\ features' = InitialFeatures
          /\ ~liveStats'.speechDetected]_vars

\* C11 (as claimed): onScanComplete, and with it submitAssistScan, is invoked
\* at most once for one scan, whichever end-of-window trigger fires.
C11_OneHandOverPerScan ==
    \A i, j \in 1..Len(delivered) :
        i # j => delivered[i].scan # delivered[j].scan

----------------------------------------------------------------------------
(* Claims about the page after the hand-over (checked under SpecPage) *)

\* C12: when the scoring request of a flow in step 'processing' completes,
\* the step becomes 'recommendation' and the returned recommendation is the
\* one stored; a request that settles by failing leaves 'processing' too.
C12_ProcessingToRecommendation ==
    [][/\ (step = "processing" /\ lastEvent'.kind = "submitResolve") =>
            /\ step' = "recommendation"
            /\ recommendation' = lastEvent'.arg
            /\ recommendation' \in Recommendations
       /\ (step = "processing" /\ lastEvent'.kind = "submitReject") =>
            step' # "processing"]_vars

\* C12 witness: a request completed in step 'processing' with confidence at
\* the gate, and the page shows that recommendation.
C12_Witness ==
    /\ lastEvent.kind = "submitResolve"
    /\ step = "recommendation"
    /\ recommendation.confidence = ConfidenceGate
    /\ recommendation = lastEvent.arg

\* C13 (as claimed): when the scoring request is rejected the step becomes
\* 'manual' with the manual form shown and an error message set, and no
\* recommendation is stored or displayed.
C13_RejectFallsBackToManual ==
    [][lastEvent'.kind = "submitReject" =>
          /\ step' = "manual"
          /\ showManual'
          /\ error' # "null"
          /\ recommendation' = NoRecommendation
          /\ ~CardShown']_vars

\* C14 (as claimed): 'processing' is entered only from 'scan',
\* 'recommendation' only from 'processing', 'complete' only from
\* 'recommendation' or 'manual', and from 'manual' or 'complete' the step
\* never becomes 'processing' or 'recommendation'.
C14_StepOrder ==
    [][/\ (step' = "processing" /\ step # "processing") => step = "scan"
       /\ (step' = "recommendation" /\ step # "recommendation") =>
              step = "processing"
       /\ (step' = "complete" /\ step # "complete") =>
              step \in {"recommendation", "manual"}
       /\ step \in {"manual", "complete"} =>
              step' \notin {"processing", "recommendation"}]_vars

\* C15: whenever the recommendation card is shown, whatever the confidence,
\* "Choose Different Mode" / "Manual Selection" can be taken; taking it
\* leaves step 'manual' with the manual form shown, in which each of the
\* five modes can be selected.
C15_OverrideAlwaysAvailable ==
    /\ CardShown => ENABLED HandleOverride
    /\ lastEvent.kind = "override" =>
          /\ step = "manual"
          /\ FormShown
          /\ \A modeId \in Modes : ENABLED HandleSelectMode(modeId)

\* C15 witness: the override was taken from a card with confidence 0
C15_Witness ==
    /\ lastEvent.kind = "override"
    /\ recommendation.confidence = 0
    /\ step = "manual"
    /\ showManual

\* C16: when getUserMedia rejects, that startScan call starts no scan and
\* leaves isScanning false; handleScanError leaves step 'manual' with the
\* manual form shown and an error message set, and in that form every mode
\* can be selected (the way to complete onboarding without the camera).
C16_DeniedCameraFallsBack ==
    /\ [](lastEvent.kind = "scanError" =>
            /\ ~isScanning
            /\ step = "manual"
            /\ FormShown
            /\ error # "null"
            /\ \A modeId \in Modes : ENABLED HandleSelectMode(modeId))
    /\ [][lastEvent'.kind = "scanError" =>
            (scans' = scans /\ isScanning' = FALSE)]_vars

\* C16 witness: camera access was denied, no scan ever started, and the flow
\* was completed through the manual form
C16_Witness ==
    /\ scans = 0
    /\ error = "Camera access denied or unavailable"
    /\ step = "complete"
    /\ preferences.source = "manual_selection"

----------------------------------------------------------------------------
(* Claims about consent and the manual path (checked under SpecConsent) *)

\* C17 (as claimed): step 'scan' is entered only by accepting the consent
\* modal, a consent record with cameraUsage true is stored whenever the step
\* is 'scan', and once the modal was declined or the camera skipped (step
\* 'manual' or later) the step never becomes 'scan'.
C17_ScanOnlyWithStoredConsent ==
    /\ [](step = "scan" => consentStore = "cameraUsage")
    /\ [][(step' = "scan" /\ step # "scan") =>
            lastEvent'.kind = "consentAccept"]_vars
    /\ [][(step \in {"manual", "complete"}) => step' # "scan"]_vars

\* C18: "I Understand, Proceed" is enabled only when all four sections are
\* marked read or the checkbox is ticked; the modal opens with no section
\* marked and the checkbox clear, so that accepting is not possible then; and
\* whenever the modal was accepted, one of the two conditions held.
C18_AcceptNeedsReadOrCheckbox ==
    /\ ENABLED HandleConsentAccept =>
          (readSections = Sections \/ manualCheckbox)
    /\ lastEvent.kind = "modalOpen" =>
          /\ readSections = {}
          /\ manualCheckbox = FALSE
          /\ ~ENABLED HandleConsentAccept
    /\ lastEvent.kind = "consentAccept" =>
          (lastEvent.arg.read = Sections \/ lastEvent.arg.box)

\* C18 witness: the modal was accepted after all four sections were marked
\* read, the checkbox never ticked
C18_Witness ==
    /\ lastEvent.kind = "consentAccept"
    /\ lastEvent.arg.read = Sections
    /\ ~lastEvent.arg.box
    /\ step = "scan"

\* C19: "Skip Camera - Manual Selection" on the welcome step shows the manual
\* form with no camera started and no consent record written; Confirm works
\* only with one of the five modes selected; a successful local save stores
\* that mode with source 'manual_selection' and completedOnboarding true, and
\* when the handler has finished the step is 'complete' with such
\* preferences stored.
C19_SkipCameraManualPath ==
    /\ (lastEvent.kind = "skipCamera" /\ lastEvent.arg = <<"welcome">>) =>
          /\ step = "manual"
          /\ FormShown
          /\ consentStore = "null"
          /\ clicks = 0
          /\ cameras = <<>>
          /\ ~isScanning
    /\ ENABLED HandleManualSelection => selectedMode \in Modes
    /\ (lastEvent.kind = "manualSelection" /\ lastEvent.arg = <<TRUE>>) =>
          /\ preferences.assistMode = selectedMode
          /\ preferences.source = "manual_selection"
          /\ preferences.completedOnboarding
    /\ lastEvent.kind = "saveSettle" =>
          /\ step = "complete"
          /\ preferences.assistMode \in Modes
          /\ preferences.source = "manual_selection"
          /\ preferences.completedOnboarding

\* C19 witness: the flow is complete with a manually selected mode stored,
\* no consent record, and no camera ever started
C19_Witness ==
    /\ lastEvent.kind = "saveSettle"
    /\ step = "complete"
    /\ preferences.assistMode = "sign"
    /\ preferences.source = "manual_selection"
    /\ consentStore = "null"
    /\ clicks = 0

----------------------------------------------------------------------------
(* Claims about the routes (checked under SpecApp) *)

\* C20 (as claimed): after Delete All Data was confirmed in the hub,
\* navigation eventually settles on route '/' with OnboardingPage rendered.
C20_DeleteSettlesOnOnboarding ==
    [](lastEvent.kind = "deleteData" => <>[]OnboardingShown)

----------------------------------------------------------------------------
(* Claims about local storage *)

\* C21 (as claimed): after Delete All Data none of the keys the application
\* writes for the user is left in local storage: preferences, consent,
\* camera data, auth_token, user_id, guest_mode.
C21_DeleteAllLeavesNothing ==
    lastEvent.kind = "deleteData" =>
        /\ preferences = NoPreferences
        /\ consentStore = "null"
        /\ localKeys = {}

\* C22: "Delete Camera Data" removes the camera data key and changes neither
\* the other keys, the stored preferences, the consent record, nor the step
\* and the recommendation of the page.
C22_DeleteCameraDataOnly ==
    [][lastEvent'.kind = "deleteCameraData" =>
          /\ localKeys' = localKeys \ {CameraDataKey}
          /\ preferences' = preferences
          /\ consentStore' = consentStore
          /\ step' = step
          /\ recommendation' = recommendation]_vars

\* C22 witness: the camera data key was there and is gone after the click,
\* with a consent record and accepted preferences still stored
C22_Witness ==
    /\ lastEvent.kind = "deleteCameraData"
    /\ CameraDataKey \notin localKeys
    /\ localKeys = PasswordLoginKeys
    /\ consentStore = "cameraUsage"
    /\ preferences.source = "camera_recommendation"
    /\ step = "recommendation"

----------------------------------------------------------------------------
(* Claims about the Scoring Engine (checked under SpecScore) *)

\* the request the last step answered with a Recommendation
Scored == lastEvent.kind = "assistScan" /\ lastEvent.arg.response.ok

\* C23: in every Recommendation the confidence is the score of the returned
\* mode and no mode has a strictly higher score; the page stores that mode
\* and confidence.
C23_ConfidenceIsTopScore ==
    Scored =>
        LET r == lastEvent.arg.response
        IN  /\ r.mode \in Modes
            /\ r.confidence = r.scores[r.mode]
            /\ \A m \in Modes : r.scores[m] <= r.scores[r.mode]
            /\ recommendation = [mode |-> r.mode, confidence |-> r.confidence]

\* C23 witness: a Recommendation for sign whose score is not the only
\* positive one
C23_Witness ==
    /\ Scored
    /\ lastEvent.arg.response.mode = "sign"
    /\ lastEvent.arg.response.confidence = 980
    /\ lastEvent.arg.response.scores.gesture > 0

\* C24: when several modes share the maximum score, the returned mode is the
\* earliest of them in the order voice, sign, text, gesture, motor.
C24_TieBreakByPriority ==
    Scored =>
        LET r == lastEvent.arg.response
            order == <<"voice", "sign", "text", "gesture", "motor">>
        IN  \A i, j \in 1..5 :
                (order[i] = r.mode /\ r.scores[order[j]] = r.scores[r.mode])
                    => i <= j

\* C24 witness: voice and sign both have the maximum score, voice is returned
C24_Witness ==
    /\ Scored
    /\ lastEvent.arg.response.scores.voice = lastEvent.arg.response.scores.sign
    /\ lastEvent.arg.response.confidence = lastEvent.arg.response.scores.sign
    /\ lastEvent.arg.response.mode = "voice"

\* C25: a valid feature vector is answered with a score map whose keys are
\* exactly the five modes and whose scores lie in [0, 1].
C25_FiveScoresInUnitRange ==
    (/\ lastEvent.kind = "assistScan"
     /\ lastEvent.arg.features.handSignFreq \in 0..FreqCap
     /\ lastEvent.arg.features.gazePattern \in {"normal", "inconsistent"}) =>
        LET r == lastEvent.arg.response
        IN  /\ r.ok
            /\ DOMAIN r.scores = {"voice", "sign", "text", "gesture", "motor"}
            /\ \A m \in DOMAIN r.scores : r.scores[m] \in 0..1000

\* C25 witness: a vector for which the clamp acts at both ends (sign at 1,
\* motor at 0)
C25_Witness ==
    /\ Scored
    /\ lastEvent.arg.features.handSignFreq = FreqCap
    /\ lastEvent.arg.response.scores.sign = 1000
    /\ lastEvent.arg.response.scores.motor = 0

\* C26: the sign score of the scored vector is at least the sign score of
\* every vector that differs from it only by a lower handSignFreq.
C26_SignScoreMonotone ==
    Scored =>
        \A k \in 0..lastEvent.arg.features.handSignFreq :
            Score([lastEvent.arg.features EXCEPT !.handSignFreq = k]).sign
                <= lastEvent.arg.response.scores.sign

\* C26 witness: a vector at the top of the range whose sign score is
\* strictly above that of the vector with no hand movement
C26_Witness ==
    /\ Scored
    /\ lastEvent.arg.features.handSignFreq = FreqCap
    /\ lastEvent.arg.response.scores.sign >
           Score([lastEvent.arg.features EXCEPT !.handSignFreq = 0]).sign

\* C27: a vector with handSignFreq outside [0, 10] or a gazePattern outside
\* its enumeration is answered with the validation error: no Recommendation
\* is produced, none is stored, and the page falls back to 'manual'.
C27_InvalidVectorRejected ==
    (/\ lastEvent.kind = "assistScan"
     /\ \/ lastEvent.arg.features.handSignFreq < 0
        \/ lastEvent.arg.features.handSignFreq > FreqCap
        \/ lastEvent.arg.features.gazePattern \notin {"normal", "inconsistent"}) =>
        /\ ~lastEvent.arg.response.ok
        /\ recommendation = NoRecommendation
        /\ step = "manual"

\* C27 witness: a request with a negative handSignFreq was rejected
C27_Witness ==
    /\ lastEvent.kind = "assistScan"
    /\ lastEvent.arg.features.handSignFreq = -1
    /\ ~lastEvent.arg.response.ok
    /\ error = "Failed to process scan"

----------------------------------------------------------------------------
(* Claims about the accumulator's memory and its pose classifications *)

\* C28: whatever events arrive, handMovementHistory holds at most 10 samples
\* and speechHistory at most 6 entries.
C28_HistoriesBounded ==
    /\ Len(features.handMovementHistory) <= 10
    /\ Len(features.speechHistory) <= 6

\* C28 witness: both histories are full after an event that appended to a
\* full history
C28_Witness ==
    /\ frames = MaxFrames
    /\ lastEvent.kind = "speech"
    /\ \E i \in 1..Len(lastEvent.arg) : lastEvent.arg[i].isFinal
    /\ Len(features.handMovementHistory) = 10
    /\ features.handMovementHistory[10] = WristC
    /\ Len(features.speechHistory) = 6
    /\ features.speechHistory[6] = "world"
    /\ features.speechHistory[1] = "hello"

\* the step delivered a pose frame with both hips and both ankles
LegFrameStep ==
    /\ lastEvent'.kind = "pose"
    /\ lastEvent'.arg.present
    /\ lastEvent'.arg.leftHip # Absent /\ lastEvent'.arg.rightHip # Absent
    /\ lastEvent'.arg.leftAnkle # Absent /\ lastEvent'.arg.rightAnkle # Absent

\* C29: a pose frame with both hips and both ankles sets posture to 'seated'
\* iff |avg(hips) - avg(ankles)| < 0.2 (in thousandths, both sides doubled)
\* and to 'standing' otherwise; every other step leaves posture alone, so the
\* posture at the end of the window is that of the last such frame.
C29_PostureOfLastLegFrame ==
    [][IF LegFrameStep
       THEN LET hips == lastEvent'.arg.leftHip + lastEvent'.arg.rightHip
                ankles == lastEvent'.arg.leftAnkle + lastEvent'.arg.rightAnkle
                diff2 == IF hips < ankles THEN ankles - hips ELSE hips - ankles
            IN  /\ (diff2 < 400) <=> (features'.posture = "seated")
                /\ (diff2 >= 400) <=> (features'.posture = "standing")
       ELSE features'.posture = features.posture]_vars

\* C29 witness: the last frame of the behaviour, whose hip-ankle difference
\* is exactly 0.2, has set posture to 'standing'
C29_Witness ==
    /\ frames = MaxFrames
    /\ lastEvent.kind = "pose"
    /\ lastEvent.arg.present
    /\ lastEvent.arg.leftHip = 500 /\ lastEvent.arg.rightHip = 500
    /\ lastEvent.arg.leftAnkle = 700 /\ lastEvent.arg.rightAnkle = 700
    /\ features.posture = "standing"

\* the step delivered a pose frame with a nose landmark
NoseFrameStep ==
    /\ lastEvent'.kind = "pose"
    /\ lastEvent'.arg.present
    /\ lastEvent'.arg.nose # Absent

\* C30: a pose frame with a nose landmark sets gazePattern to 'inconsistent'
\* iff the nose x is below 0.3 or above 0.7 and to 'normal' otherwise (0.3
\* and 0.7 included); every other step leaves gazePattern alone, so the gaze
\* pattern at the end of the window is that of the last such frame.
C30_GazeOfLastNoseFrame ==
    [][IF NoseFrameStep
       THEN LET x == lastEvent'.arg.nose
            IN  /\ (x < 300 \/ x > 700) <=> (features'.gazePattern = "inconsistent")
                /\ (x >= 300 /\ x <= 700) <=> (features'.gazePattern = "normal")
       ELSE features'.gazePattern = features.gazePattern]_vars

\* C30 witness: an earlier frame made the gaze 'inconsistent' and a frame
\* without a nose kept it
C30_Witness ==
    /\ lastEvent.kind = "pose"
    /\ lastEvent.arg.present
    /\ lastEvent.arg.nose = Absent
    /\ features.gazePattern = "inconsistent"
    /\ liveStats.faceDetected

----------------------------------------------------------------------------
(* Claims about the scanner's devices and the completion of onboarding *)

\* C31: while a scan is in progress, every frame of a running camera is
\* forwarded to the trackers (its onFrame passes its isScanning test) and
\* every tracker result passes the guard of onResults.
C31_FramesIngestedWhileScanning ==
    (Mounted /\ isScanning) =>
        \A k \in 1..Len(cameras) :
            cameras[k].state = "running" => (cameras[k].fwd /\ handsClosure)

\* C32: while the scan that was started is in progress (no completeScan, no
\* stopScan, no unmount since), the speech recogniser listens and the camera
\* the scan created has not been stopped.
C32_DevicesRunDuringScan ==
    (Mounted /\ isScanning) =>
        /\ recognition = "listening"
        /\ cameras # <<>>
        /\ cameras[Len(cameras)].state # "stopped"

\* C33: whenever the step is 'complete', local storage holds preferences
\* with completedOnboarding true and one of the five modes as assistMode
\* (the local save succeeded before the step was entered).
C33_CompleteOnlyAfterLocalSave ==
    step = "complete" =>
        /\ preferences.completedOnboarding
        /\ preferences.assistMode \in Modes

\* C34: when saveUserPreferences rejects, the handler still sets step
\* 'complete' and schedules the redirect, and sets no error message.
C34_BackendSaveOptional ==
    [][(lastEvent'.kind = "saveSettle" /\ ~lastEvent'.arg[1]) =>
          /\ step' = "complete"
          /\ error' = error
          /\ navTimers' = navTimers + 1]_vars

\* C34 witness: the local save succeeded, the backend save was rejected, and
\* the flow is 'complete' without an error message
C34_Witness ==
    /\ lastEvent.kind = "saveSettle"
    /\ ~lastEvent.arg[1]
    /\ preferences.completedOnboarding
    /\ preferences.source = "manual_selection"
    /\ step = "complete"
    /\ error = "null"

\* C35: whenever onboarding reaches 'complete', navigation eventually
\* settles on '/hub' with the hub rendering the interface of the stored
\* assist mode, and stays there.
C35_CompleteLandsOnHub ==
    [](step = "complete" =>
          <>[](/\ route = "/hub"
               /\ hub.status = "ready"
               /\ hub.preferences.assistMode \in Modes))

\* C36: stored preferences with source 'camera_recommendation' carry the
\* mode and the confidence of the recommendation that was displayed, and
\* that confidence passed the accept gate; preferences the manual form has
\* just stored carry source 'manual_selection'.
C36_CameraSourceMeansAccepted ==
    /\ preferences.source = "camera_recommendation" =>
          /\ preferences.assistMode = recommendation.mode
          /\ preferences.confidence = recommendation.confidence
          /\ preferences.confidence > 700
    /\ (lastEvent.kind = "manualSelection" /\ lastEvent.arg[1]) =>
          preferences.source = "manual_selection"

====
